---------------------------- MODULE Spec2Model ----------------------------
(***************************************************************************)
(* A model of cdd_comm: the frame codec and frame taxonomy (frame.py),     *)
(* the record layer (record.py) and the sender (sender.py).                *)
(*                                                                         *)
(* Conventions.  A Python Optional value is None == <<>> or Some(x) ==     *)
(* <<x>>.  A Python str is a sequence of Unicode code points.  A Python    *)
(* class is the string of its name.  A Python exception is a result with   *)
(* ok = FALSE.                                                             *)
(***************************************************************************)
EXTENDS Integers, Sequences, FiniteSets, TLC

(***************************************************************************)
(* Python helpers                                                          *)
(***************************************************************************)

None == <<>>

Some(x) == <<x>>

IsNone(o) == o = <<>>

Val(o) == o[1]

Min(a, b) == IF a <= b THEN a ELSE b

RECURSIVE Pow2(_)
Pow2(n) == IF n = 0 THEN 1 ELSE 2 * Pow2(n - 1)

\* x & (1 << bit) != 0, for x >= 0
BitTest(x, bit) == (x \div Pow2(bit)) % 2 = 1

\* x | (1 << bit), for x >= 0
BitSet(x, bit) == IF BitTest(x, bit) THEN x ELSE x + Pow2(bit)

RECURSIVE BitOrUpTo(_, _, _)
BitOrUpTo(x, y, bit) ==
    IF bit < 0 THEN 0
    ELSE (IF BitTest(x, bit) \/ BitTest(y, bit) THEN Pow2(bit) ELSE 0)
         + BitOrUpTo(x, y, bit - 1)

\* x | y, for 0 <= x, y < 256
BitOr(x, y) == BitOrUpTo(x, y, 7)

RECURSIVE Sum(_)
\* sum(s), by halves (the recursion stays shallow on long sequences)
Sum(s) ==
    IF s = <<>> THEN 0
    ELSE IF Len(s) = 1 THEN s[1]
    ELSE LET h == Len(s) \div 2
         IN  Sum(SubSeq(s, 1, h)) + Sum(SubSeq(s, h + 1, Len(s)))

RECURSIVE Concat(_)
\* "".join(ss), by halves
Concat(ss) ==
    IF ss = <<>> THEN <<>>
    ELSE IF Len(ss) = 1 THEN ss[1]
    ELSE LET h == Len(ss) \div 2
         IN  Concat(SubSeq(ss, 1, h)) \o Concat(SubSeq(ss, h + 1, Len(ss)))

Reversed(s) == [i \in 1..Len(s) |-> s[Len(s) + 1 - i]]

Rep(c, n) == [i \in 1..n |-> c]

\* s[a:b] of Python, 0-based, for 0 <= a
Slice(s, a, b) == SubSeq(s, a + 1, Min(b, Len(s)))

(***************************************************************************)
(* Frame                                                                   *)
(***************************************************************************)

FRAME_START == 58

\* A Frame object: the class it was constructed with and its five fields.
MkFrame(cls, length, frame_type, address, data, checksum) ==
    [kind |-> cls, length |-> length, frame_type |-> frame_type,
     address |-> address, data |-> data, checksum |-> checksum]

\* Frame.__eq__
FrameEq(f, g) ==
    /\ f.kind = g.kind
    /\ f.length = g.length
    /\ f.frame_type = g.frame_type
    /\ f.address = g.address
    /\ f.data = g.data
    /\ f.checksum = g.checksum

calculate_checksum_no_negate(length, frame_type, address, data) ==
    (length + frame_type + ((address \div 256) % 256) + (address % 256)
       + Sum(data)) % 256

calculate_checksum(length, frame_type, address, data) ==
    LET c1 == length + frame_type + ((address \div 256) % 256)
                + (address % 256) + Sum(data)
        c2 == c1 % 256
        c3 == 255 - c2
        c4 == c3 + 1
    IN  c4 % 256

is_checksum_valid(f) ==
    f.checksum = calculate_checksum(f.length, f.frame_type, f.address, f.data)

HexDigitLower(n) == IF n < 10 THEN 48 + n ELSE 87 + n

\* one digit of "%02X"
HexDigit(n) == IF n < 10 THEN 48 + n ELSE 55 + n

\* Frame._encode: the two ASCII codes of "%02X" % value, 0 <= value <= 255
encode(value) == <<HexDigit(value \div 16), HexDigit(value % 16)>>

bytes_high_first(f) ==
    <<FRAME_START>> \o encode(f.length) \o encode(f.frame_type)
        \o encode((f.address \div 256) % 256) \o encode(f.address % 256)
        \o Concat([i \in 1..Len(f.data) |-> encode(f.data[i])])
        \o encode(f.checksum)

\* Frame.bytes
bytes(f) ==
    <<FRAME_START>> \o encode(f.length) \o encode(f.frame_type)
        \o encode(f.address % 256) \o encode((f.address \div 256) % 256)
        \o Concat([i \in 1..Len(f.data) |-> encode(f.data[i])])
        \o encode(f.checksum)


(***************************************************************************)
(* Character map (TextDataFrame)                                           *)
(***************************************************************************)

\* the codes whose CASIO_TO_UNICODE entry is the same code point
IdentityCodes == (32..94) \cup (97..123) \cup {125, 126}

\* the codes whose entry is a string of two, and of three, characters
TwoCharCodes ==
    {21, 124} \cup (128..151) \cup (153..157) \cup (159..168) \cup (171..173)
        \cup (181..190) \cup (198..212)
        \cup {225, 230, 232, 234, 237, 241, 245, 246, 248, 253}

ThreeCharCodes == {174, 175, 216, 251}

CasioCodes ==
    {10, 13, 179} \cup IdentityCodes \cup TwoCharCodes \cup ThreeCharCodes

\* CASIO_TO_UNICODE[d], a str
CASIO_TO_UNICODE(d) ==
    CASE d = 10 -> <<31>>
      [] d = 13 -> <<10>>
      [] d = 179 -> <<124>>
      [] d \in IdentityCodes -> <<d>>
      [] d \in TwoCharCodes -> <<63, 63>>
      [] d \in ThreeCharCodes -> <<63, 63, 63>>

\* c in UNICODE_TO_CASIO, for a single character c
Encodable(c) == c \in {31, 10, 124} \cup IdentityCodes

\* UNICODE_TO_CASIO[c], for a single character c
UNICODE_TO_CASIO(c) ==
    CASE c = 31 -> 10
      [] c = 10 -> 13
      [] c = 124 -> 179
      [] c \in IdentityCodes -> c

\* TextDataFrame.text
text(f) == Concat([i \in 1..Len(f.data) |-> CASIO_TO_UNICODE(f.data[i])])

\* every data byte has an entry in CASIO_TO_UNICODE (text raises KeyError otherwise)
TextDecodable(f) == \A i \in 1..Len(f.data) : f.data[i] \in CasioCodes

(***************************************************************************)
(* Frame taxonomy: class attributes, match, from_data                      *)
(***************************************************************************)

DirectoryClasses ==
    {"Directory", "TelephoneDirectory", "BusinessCardDirectory", "MemoDirectory",
     "CalendarDirectory", "ScheduleDirectory", "ReminderDirectory",
     "ToDoDirectory", "ExpenseManagerDirectory"}

TimeClasses == {"Time", "DeadlineTime", "ToDoAlarm", "Alarm"}

DateClasses == {"Date", "DeadlineDate"}

\* Frame.SUBCLASSES, in the order __init_subclass__ appends them
SUBCLASSES ==
    <<"Directory", "TelephoneDirectory", "BusinessCardDirectory", "MemoDirectory",
      "CalendarDirectory", "ScheduleDirectory", "ReminderDirectory",
      "ToDoDirectory", "ExpenseManagerDirectory", "Color", "TextDataFrame",
      "Date", "DeadlineDate", "Time", "DeadlineTime", "ToDoAlarm", "Alarm",
      "Priority", "DayHighlight", "DayColorHighlight", "StartEndTime",
      "Illustration", "Text", "EndOfRecord", "EndOfTransmission">>

\* isinstance(f, cls)
IsInstance(f, cls) ==
    \/ f.kind = cls
    \/ cls = "Frame"
    \/ cls = "Directory" /\ f.kind \in DirectoryClasses
    \/ cls = "Date" /\ f.kind \in DateClasses
    \/ cls = "Time" /\ f.kind \in TimeClasses
    \/ cls = "TextDataFrame"
         /\ f.kind \in DateClasses \cup TimeClasses \cup {"StartEndTime", "Text"}

\* cls.LENGTH
LENGTH(cls) ==
    CASE cls \in DirectoryClasses -> 2
      [] cls = "Color" -> 1
      [] cls \in DateClasses -> 10
      [] cls \in TimeClasses -> 5
      [] cls = "Priority" -> 1
      [] cls = "DayHighlight" -> 4
      [] cls = "DayColorHighlight" -> 32
      [] cls = "StartEndTime" -> 11
      [] cls = "Illustration" -> 1
      [] cls = "EndOfRecord" -> 0
      [] cls = "EndOfTransmission" -> 0

\* cls.TYPE; DeadlineDate sets none and inherits Date's
TYPE(cls) ==
    CASE cls \in DirectoryClasses -> 0
      [] cls = "Color" -> 113
      [] cls \in DateClasses -> 240
      [] cls = "Time" -> 224
      [] cls = "DeadlineTime" -> 228
      [] cls = "ToDoAlarm" -> 196
      [] cls = "Alarm" -> 192
      [] cls = "Priority" -> 114
      [] cls = "DayHighlight" -> 208
      [] cls = "DayColorHighlight" -> 120
      [] cls = "StartEndTime" -> 224
      [] cls = "Illustration" -> 33
      [] cls = "EndOfRecord" -> 0
      [] cls = "EndOfTransmission" -> 0

\* cls.ADDRESS
ADDRESS(cls) ==
    CASE cls \in DirectoryClasses -> 512
      [] cls = "EndOfRecord" -> 256
      [] cls = "EndOfTransmission" -> 65280
      [] OTHER -> 0

\* cls.DATA
DATA(cls) ==
    CASE cls = "Directory" -> <<0, 0>>
      [] cls = "TelephoneDirectory" -> <<144, 0>>
      [] cls = "BusinessCardDirectory" -> <<192, 0>>
      [] cls = "MemoDirectory" -> <<160, 0>>
      [] cls = "CalendarDirectory" -> <<128, 0>>
      [] cls = "ScheduleDirectory" -> <<176, 0>>
      [] cls = "ReminderDirectory" -> <<145, 0>>
      [] cls = "ToDoDirectory" -> <<193, 0>>
      [] cls = "ExpenseManagerDirectory" -> <<146, 0>>
      [] cls = "EndOfRecord" -> <<>>
      [] cls = "EndOfTransmission" -> <<>>

Colors == {"BLUE", "ORANGE", "GREEN"}

\* Colors.<name>.value
ColorValue(color) ==
    CASE color = "BLUE" -> 1 [] color = "ORANGE" -> 2 [] color = "GREEN" -> 4

Priorities == {"A", "B", "C"}

\* Priorities.<name>.value
PriorityValue(priority) ==
    CASE priority = "A" -> 16 [] priority = "B" -> 32 [] priority = "C" -> 48

TYPE_LOW == 128

TYPE_HIGH == 129

\* a match in which a Directory class does not look at the data
match_any_data(cls, length, frame_type, address, data) ==
    CASE cls \in DirectoryClasses ->
            /\ length = LENGTH(cls)
            /\ frame_type = TYPE(cls)
            /\ address = ADDRESS(cls)
      [] cls = "Color" ->
            /\ length = LENGTH(cls)
            /\ frame_type = TYPE(cls)
            /\ address = ADDRESS(cls)
            /\ data[1] \in {ColorValue(c) : c \in Colors}
      [] cls = "Priority" ->
            /\ length = LENGTH(cls)
            /\ frame_type = TYPE(cls)
            /\ address = ADDRESS(cls)
            /\ data[1] \in {PriorityValue(p) : p \in Priorities}
      [] cls = "DeadlineDate" ->
            length = 10 /\ frame_type = 244 /\ address = 0
      [] cls \in {"Date", "DayHighlight", "DayColorHighlight", "StartEndTime",
                  "Illustration", "EndOfRecord", "EndOfTransmission"}
              \cup TimeClasses ->
            /\ length = LENGTH(cls)
            /\ frame_type = TYPE(cls)
            /\ address = ADDRESS(cls)
      [] cls = "Text" -> frame_type = TYPE_LOW \/ frame_type = TYPE_HIGH
      [] OTHER -> FALSE

\* cls.match(length, frame_type, address, data)
match(cls, length, frame_type, address, data) ==
    CASE cls \in DirectoryClasses ->
            /\ length = LENGTH(cls)
            /\ frame_type = TYPE(cls)
            /\ address = ADDRESS(cls)
            /\ data = DATA(cls)
      [] cls = "Color" ->
            /\ length = LENGTH(cls)
            /\ frame_type = TYPE(cls)
            /\ address = ADDRESS(cls)
            /\ data[1] \in {ColorValue(c) : c \in Colors}
      [] cls = "Priority" ->
            /\ length = LENGTH(cls)
            /\ frame_type = TYPE(cls)
            /\ address = ADDRESS(cls)
            /\ data[1] \in {PriorityValue(p) : p \in Priorities}
      [] cls = "DeadlineDate" ->
            length = 10 /\ frame_type = 244 /\ address = 0
      [] cls \in {"Date", "DayHighlight", "DayColorHighlight", "StartEndTime",
                  "Illustration", "EndOfRecord", "EndOfTransmission"}
              \cup TimeClasses ->
            /\ length = LENGTH(cls)
            /\ frame_type = TYPE(cls)
            /\ address = ADDRESS(cls)
      [] cls = "Text" -> frame_type = TYPE_LOW \/ frame_type = TYPE_HIGH
      [] OTHER -> FALSE

RECURSIVE from_data_scan(_, _, _, _, _, _)
from_data_scan(i, length, frame_type, address, data, checksum) ==
    IF i = 0 THEN MkFrame("Frame", length, frame_type, address, data, checksum)
    ELSE IF match(SUBCLASSES[i], length, frame_type, address, data)
         THEN MkFrame(SUBCLASSES[i], length, frame_type, address, data, checksum)
         ELSE from_data_scan(i - 1, length, frame_type, address, data, checksum)

\* Frame.from_data: the first class of reversed(SUBCLASSES) that matches
from_data(length, frame_type, address, data, checksum) ==
    from_data_scan(Len(SUBCLASSES), length, frame_type, address, data, checksum)

(***************************************************************************)
(* Frame builders                                                          *)
(***************************************************************************)

RECURSIVE DecimalDigits(_)
\* str(n) for n >= 0
DecimalDigits(n) ==
    IF n < 10 THEN <<48 + n>> ELSE DecimalDigits(n \div 10) \o <<48 + (n % 10)>>

\* "%.<width>d" % n for n >= 0: at least width digits, zero padded
FormatD(n, width) ==
    LET d == DecimalDigits(n)
    IN  IF Len(d) >= width THEN d ELSE Rep(48, width - Len(d)) \o d

IsDigits(s) == s # <<>> /\ \A i \in 1..Len(s) : s[i] \in 48..57

RECURSIVE ParseInt(_)
\* int(s) for a str of decimal digits
ParseInt(s) ==
    IF s = <<>> THEN 0 ELSE 10 * ParseInt(SubSeq(s, 1, Len(s) - 1)) + (s[Len(s)] - 48)

\* [UNICODE_TO_CASIO[c] for c in s]
EncodeStr(s) == [i \in 1..Len(s) |-> UNICODE_TO_CASIO(s[i])]

\* cls(LENGTH, TYPE, ADDRESS, data, calculate_checksum(LENGTH, TYPE, ADDRESS, data))
Build(cls, data) ==
    MkFrame(cls, LENGTH(cls), TYPE(cls), ADDRESS(cls), data,
            calculate_checksum(LENGTH(cls), TYPE(cls), ADDRESS(cls), data))

\* Directory.get, EndOfRecord.get, EndOfTransmission.get
get(cls) == Build(cls, DATA(cls))

\* Color.from_color
from_color(color) == Build("Color", <<ColorValue(color)>>)

\* Priority.from_priority
from_priority(priority) == Build("Priority", <<PriorityValue(priority)>>)

\* Date.from_values, a classmethod: year, month, day are Optional[int]
from_values(cls, year, month, day) ==
    LET year_str == IF IsNone(year) THEN <<45, 45, 45, 45>> ELSE FormatD(Val(year), 4)
        month_str == IF IsNone(month) THEN <<45, 45>> ELSE FormatD(Val(month), 2)
        day_str == IF IsNone(day) THEN <<45, 45>> ELSE FormatD(Val(day), 2)
    IN  Build(cls, EncodeStr(year_str \o <<45>> \o month_str \o <<45>> \o day_str))

\* Date.from_date, a classmethod: date is a datetime.date
from_date(cls, date) ==
    Build(cls, EncodeStr(FormatD(date.year, 4) \o <<45>> \o FormatD(date.month, 2)
                           \o <<45>> \o FormatD(date.day, 2)))

\* Time.from_time, a classmethod: time is a datetime.time (hour and minute are used)
from_time(cls, time) ==
    Build(cls, EncodeStr(FormatD(time.hour, 2) \o <<58>> \o FormatD(time.minute, 2)))

\* StartEndTime.from_start_end_times
from_start_end_times(start_time, end_time) ==
    Build("StartEndTime",
          EncodeStr(FormatD(start_time.hour, 2) \o <<58>> \o FormatD(start_time.minute, 2)
                      \o <<126>> \o FormatD(end_time.hour, 2) \o <<58>>
                      \o FormatD(end_time.minute, 2)))

\* Illustration.from_number
from_number(number) == Build("Illustration", <<number>>)

\* int((day - 1) / 8): true division, then truncation towards zero
DayByte(day) == IF day >= 1 THEN (day - 1) \div 8 ELSE 0 - ((1 - day) \div 8)

RECURSIVE DaysToData(_, _)
\* the loop "for day in days: data[byte] |= 1 << bit" of DayHighlight.from_days
DaysToData(days, data) ==
    IF days = {} THEN data
    ELSE LET day == CHOOSE d \in days : TRUE
             byte == DayByte(day)
             bit == (day - 1) % 8
         IN  DaysToData(days \ {day},
                        [data EXCEPT ![byte + 1] = BitSet(data[byte + 1], bit)])

from_days_not_reversed(days) == Build("DayHighlight", DaysToData(days, Rep(0, 4)))

\* DayHighlight.from_days, for at most 32 days, each in 0..32
from_days(days) == Build("DayHighlight", Reversed(DaysToData(days, Rep(0, 4))))

\* DayHighlight.days
DayHighlight_days(f) ==
    {(3 - (p[1] - 1)) * 8 + p[2] + 1 :
        p \in {q \in (1..Len(f.data)) \X (0..7) : BitTest(f.data[q[1]], q[2])}}

from_days_and_colors_not_reversed(days, colors) ==
    Build("DayColorHighlight",
          [i \in 1..32 |->
              IF i <= Len(colors)
              THEN BitOr(IF i \in days THEN 128 ELSE 0, ColorValue(colors[i]))
              ELSE IF i \in days THEN 128 ELSE 0])

\* DayColorHighlight.from_days_and_colors, for days within 1..31 and fewer than 32 colors
from_days_and_colors(days, colors) ==
    LET highlighted == [i \in 1..32 |-> IF i \in days THEN 128 ELSE 0]
        coloured == [i \in 1..32 |->
                        IF i <= Len(colors)
                        THEN BitOr(highlighted[i], ColorValue(colors[i]))
                        ELSE highlighted[i]]
    IN  Build("DayColorHighlight", Reversed(coloured))

EndOfRecord_get == get("EndOfRecord")

EndOfTransmission_get == get("EndOfTransmission")

\* list(Colors), in definition order
ColorList == <<"BLUE", "ORANGE", "GREEN">>

\* info & color.value != 0
HasColorBit(info, color) ==
    \E bit \in 0..7 : BitTest(ColorValue(color), bit) /\ BitTest(info, bit)

RECURSIVE get_day_color_highlight_loop(_, _, _)
\* the loop of DayColorHighlight._get_day_color_highlight over reversed(data): the
\* local variable color keeps the value of the previous iteration when no colour bit
\* is set, and is unbound (UnboundLocalError) when that happens in the first iteration
get_day_color_highlight_loop(infos, color, acc) ==
    IF infos = <<>> THEN [ok |-> TRUE, value |-> acc]
    ELSE LET info == infos[1]
             hit == {i \in 1..Len(ColorList) : HasColorBit(info, ColorList[i])}
             now == IF hit = {} THEN color
                    ELSE Some(ColorList[CHOOSE i \in hit : \A j \in hit : i <= j])
         IN  IF IsNone(now) THEN [ok |-> FALSE, err |-> "UnboundLocalError"]
             ELSE get_day_color_highlight_loop(
                      Tail(infos), now,
                      Append(acc, [color |-> Val(now), highlight |-> BitTest(info, 7)]))

\* DayColorHighlight._get_day_color_highlight
get_day_color_highlight(f) ==
    get_day_color_highlight_loop(Reversed(f.data), None, <<>>)

\* DayColorHighlight.days, when _get_day_color_highlight returns ch
DayColorHighlight_days(ch) ==
    {idx \in 1..Len(ch) : idx <= 31 /\ ch[idx].highlight}

\* DayColorHighlight.colors, when _get_day_color_highlight returns ch
DayColorHighlight_colors(ch) == [idx \in 1..Min(Len(ch), 31) |-> ch[idx].color]

(***************************************************************************)
(* Text.from_text_list and textwrap.wrap                                   *)
(***************************************************************************)

MAX_CHUNK_SIZE == 128

MAX_LENGTH == 376

\* textwrap's whitespace: "\t\n\x0b\x0c\r "
IsWhitespace(c) == c \in {9, 10, 11, 12, 13, 32}

\* the length of the longest prefix of s whose characters are all whitespace, or
\* all not whitespace, like s[1]
RunLength(s) ==
    CHOOSE n \in 1..Len(s) :
        /\ \A m \in 2..n : IsWhitespace(s[m]) = IsWhitespace(s[1])
        /\ n = Len(s) \/ IsWhitespace(s[n + 1]) # IsWhitespace(s[1])

RECURSIVE SplitChunks(_)
\* TextWrapper._split with break_on_hyphens=False: wordsep_simple_re.split without
\* the empty strings, i.e. the maximal runs of whitespace and of non-whitespace
\* (computed by halves, joining the two runs that meet in the middle)
SplitChunks(s) ==
    IF s = <<>> THEN <<>>
    ELSE IF Len(s) = 1 THEN <<s>>
    ELSE LET h == Len(s) \div 2
             l == SplitChunks(SubSeq(s, 1, h))
             r == SplitChunks(SubSeq(s, h + 1, Len(s)))
         IN  IF IsWhitespace(s[h]) = IsWhitespace(s[h + 1])
             THEN SubSeq(l, 1, Len(l) - 1) \o <<l[Len(l)] \o r[1]>> \o Tail(r)
             ELSE l \o r

\* the inner loop of TextWrapper._wrap_chunks, entered with an empty current line:
\* chunks are moved to the line while they fit, i.e. the longest prefix of chunks
\* whose total length is at most width
FillLine(chunks, width) ==
    LET total(k) == Sum([i \in 1..k |-> Len(chunks[i])])
        n == CHOOSE k \in 0..Len(chunks) :
                 /\ total(k) <= width
                 /\ k = Len(chunks) \/ total(k + 1) > width
    IN  [cur_line |-> Concat(SubSeq(chunks, 1, n)),
         chunks |-> SubSeq(chunks, n + 1, Len(chunks))]

\* TextWrapper._handle_long_word with break_long_words=True
handle_long_word(st, width) ==
    LET space_left == IF width < 1 THEN 1 ELSE width - Len(st.cur_line)
        chunk == st.chunks[1]
    IN  [cur_line |-> st.cur_line \o Slice(chunk, 0, space_left),
         chunks |-> <<SubSeq(chunk, space_left + 1, Len(chunk))>> \o Tail(st.chunks)]

RECURSIVE wrap_chunks(_, _)
\* TextWrapper._wrap_chunks with drop_whitespace=False, max_lines=None and no indent
wrap_chunks(chunks, width) ==
    IF chunks = <<>> THEN <<>>
    ELSE LET filled == FillLine(chunks, width)
             st == IF filled.chunks # <<>> /\ Len(filled.chunks[1]) > width
                   THEN handle_long_word(filled, width)
                   ELSE filled
         IN  (IF st.cur_line # <<>> THEN <<st.cur_line>> ELSE <<>>)
                 \o wrap_chunks(st.chunks, width)

\* textwrap.wrap(line, width, expand_tabs=False, replace_whitespace=False,
\*               break_on_hyphens=False, drop_whitespace=False)
wrap(line, width) == wrap_chunks(SplitChunks(line), width)

RECURSIVE SplitOn(_, _)
\* s.split(sep) for a one-character separator (computed by halves, joining the
\* last piece of the left half and the first piece of the right half)
SplitOn(s, sep) ==
    IF s = <<>> THEN <<<<>>>>
    ELSE IF Len(s) = 1 THEN (IF s[1] = sep THEN <<<<>>, <<>>>> ELSE <<s>>)
    ELSE LET h == Len(s) \div 2
             l == SplitOn(SubSeq(s, 1, h), sep)
             r == SplitOn(SubSeq(s, h + 1, Len(s)), sep)
         IN  SubSeq(l, 1, Len(l) - 1) \o <<l[Len(l)] \o r[1]>> \o Tail(r)

TextFrame_type_low(chunk, last, address) ==
    LET data == EncodeStr(chunk) \o (IF last THEN <<>> ELSE <<UNICODE_TO_CASIO(10)>>)
    IN  MkFrame("Text", Len(data), TYPE_LOW, address % (MAX_CHUNK_SIZE * 2), data,
                calculate_checksum(Len(data), TYPE_LOW, address % (MAX_CHUNK_SIZE * 2),
                                   data))

\* one Text frame of _from_text
TextFrame(chunk, last, address) ==
    LET high == address >= MAX_CHUNK_SIZE * 2
        frame_type == IF high THEN TYPE_HIGH ELSE TYPE_LOW
        frame_address == IF high THEN address % (MAX_CHUNK_SIZE * 2) ELSE address
        data == EncodeStr(chunk) \o (IF last THEN <<>> ELSE <<UNICODE_TO_CASIO(10)>>)
    IN  MkFrame("Text", Len(data), frame_type, frame_address, data,
                calculate_checksum(Len(data), frame_type, frame_address, data))

RECURSIVE from_text_chunks(_, _, _, _)
\* the loop over the chunks of one line: [ok, frames, address]
from_text_chunks(chunks, last, address, frames) ==
    IF chunks = <<>> THEN [ok |-> TRUE, frames |-> frames, address |-> address]
    ELSE IF \E i \in 1..Len(chunks[1]) : ~Encodable(chunks[1][i])
         THEN [ok |-> FALSE, err |-> "Invalid character"]
         ELSE LET f == TextFrame(chunks[1], last, address)
              IN  from_text_chunks(Tail(chunks), last, address + Len(f.data),
                                   Append(frames, f))

RECURSIVE from_text_lines(_, _, _, _, _)
\* the loop over the lines lo..hi: the frames of at most three chunks of each line,
\* appended to frames (the range is walked by halves, left half first)
from_text_lines(lines, lo, hi, address, frames) ==
    IF lo > hi THEN [ok |-> TRUE, frames |-> frames, address |-> address]
    ELSE IF lo = hi
    THEN from_text_chunks(Slice(wrap(lines[lo], MAX_CHUNK_SIZE), 0, 3),
                          lo = Len(lines), address, frames)
    ELSE LET mid == (lo + hi) \div 2
             r == from_text_lines(lines, lo, mid, address, frames)
         IN  IF r.ok THEN from_text_lines(lines, mid + 1, hi, r.address, r.frames)
             ELSE r

\* Text._from_text: [ok, frames, address]
from_text_one(text_in, last, address) ==
    LET txt == IF last THEN text_in ELSE text_in \o <<31>>
    IN  IF Len(txt) > MAX_LENGTH THEN [ok |-> FALSE, err |-> "Text too long"]
        ELSE LET lines == SplitOn(txt, 10)
             IN  from_text_lines(lines, 1, Len(lines), address, <<>>)

RECURSIVE from_text_list_loop(_, _, _, _)
from_text_list_loop(text_list, idx, address, frames) ==
    IF idx > Len(text_list) THEN [ok |-> TRUE, frames |-> frames]
    ELSE LET r == from_text_one(text_list[idx], idx = Len(text_list), address)
         IN  IF r.ok
             THEN from_text_list_loop(text_list, idx + 1, r.address, frames \o r.frames)
             ELSE r

\* Text.from_text_list: [ok, frames], or ok = FALSE for ValueError
from_text_list(text_list) ==
    IF Sum([i \in 1..Len(text_list) |-> Len(text_list[i])]) > MAX_LENGTH
    THEN [ok |-> FALSE, err |-> "Text too long"]
    ELSE from_text_list_loop(text_list, 1, 0, <<>>)

\* Text.from_text
from_text(txt) == from_text_list(<<txt>>)

(***************************************************************************)
(* FrameBuilder                                                            *)
(***************************************************************************)

\* FrameBuilder.__init__
FrameBuilder_init ==
    [length |-> None, frame_type |-> None, address_low |-> None,
     address_high |-> None, address |-> None, data_count |-> None,
     data |-> <<>>, checksum |-> None]

add_data_address_swapped(b, d) ==
    IF IsNone(b.length)
    THEN [fb |-> [b EXCEPT !.length = Some(d), !.data_count = Some(d)],
          tag |-> "Length", frame |-> None]
    ELSE IF IsNone(b.frame_type)
    THEN [fb |-> [b EXCEPT !.frame_type = Some(d)], tag |-> "Type", frame |-> None]
    ELSE IF IsNone(b.address_low)
    THEN [fb |-> [b EXCEPT !.address_low = Some(d)],
          tag |-> "Address Low", frame |-> None]
    ELSE IF IsNone(b.address_high)
    THEN [fb |-> [b EXCEPT !.address_high = Some(d),
                           !.address = Some(Val(b.address_low) * 256 + (d % 256))],
          tag |-> "Address High", frame |-> None]
    ELSE IF Val(b.data_count) # 0
    THEN [fb |-> [b EXCEPT !.data = Append(b.data, d),
                           !.data_count = Some(Val(b.data_count) - 1)],
          tag |-> "Data", frame |-> None]
    ELSE [fb |-> [b EXCEPT !.checksum = Some(d)],
          tag |-> "Checksum",
          frame |-> Some(from_data(Val(b.length), Val(b.frame_type), Val(b.address),
                                   b.data, d))]

\* FrameBuilder.add_data(data): [fb: the builder afterwards, tag, frame: Optional]
add_data(b, d) ==
    IF IsNone(b.length)
    THEN [fb |-> [b EXCEPT !.length = Some(d), !.data_count = Some(d)],
          tag |-> "Length", frame |-> None]
    ELSE IF IsNone(b.frame_type)
    THEN [fb |-> [b EXCEPT !.frame_type = Some(d)], tag |-> "Type", frame |-> None]
    ELSE IF IsNone(b.address_low)
    THEN [fb |-> [b EXCEPT !.address_low = Some(d)],
          tag |-> "Address Low", frame |-> None]
    ELSE IF IsNone(b.address_high)
    THEN [fb |-> [b EXCEPT !.address_high = Some(d),
                           !.address = Some(d * 256 + (Val(b.address_low) % 256))],
          tag |-> "Address High", frame |-> None]
    ELSE IF Val(b.data_count) # 0
    THEN [fb |-> [b EXCEPT !.data = Append(b.data, d),
                           !.data_count = Some(Val(b.data_count) - 1)],
          tag |-> "Data", frame |-> None]
    ELSE [fb |-> [b EXCEPT !.checksum = Some(d)],
          tag |-> "Checksum",
          frame |-> Some(from_data(Val(b.length), Val(b.frame_type), Val(b.address),
                                   b.data, d))]

IsHexDigit(c) == c \in (48..57) \cup (65..70) \cup (97..102)

\* int(chr(c), 16) for a hexadecimal digit c
HexValue(c) ==
    CASE c \in 48..57 -> c - 48
      [] c \in 65..70 -> c - 55
      [] c \in 97..102 -> c - 87

\* Decoder._decode_hex on the second digit: int(high + chr(data), 16), for two
\* hexadecimal digits
decode_hex(high, low) == HexValue(high) * 16 + HexValue(low)

(***************************************************************************)
(* Frame properties read by the records                                    *)
(***************************************************************************)

\* Color.color: _CODE_TO_COLOR[data[0]]
Color_color(f) == CHOOSE c \in Colors : ColorValue(c) = f.data[1]

\* Priority.priority: _CODE_TO_PRIORITY[data[0]]
Priority_priority(f) == CHOOSE p \in Priorities : PriorityValue(p) = f.data[1]

\* Illustration.number
Illustration_number(f) == f.data[1]

IsLeap(year) == year % 4 = 0 /\ (year % 100 # 0 \/ year % 400 = 0)

DaysInMonth(year, month) ==
    IF month = 2 THEN (IF IsLeap(year) THEN 29 ELSE 28)
    ELSE IF month \in {4, 6, 9, 11} THEN 30 ELSE 31

\* datetime.date(year, month, day): [ok, value], ok = FALSE for its ValueError
MkDate(year, month, day) ==
    IF year \in 1..9999 /\ month \in 1..12 /\ day \in 1..DaysInMonth(year, month)
    THEN [ok |-> TRUE, value |-> [year |-> year, month |-> month, day |-> day]]
    ELSE [ok |-> FALSE, err |-> "ValueError"]

\* datetime.time(hour, minute): [ok, value], ok = FALSE for its ValueError
MkTime(hour, minute) ==
    IF hour \in 0..23 /\ minute \in 0..59
    THEN [ok |-> TRUE, value |-> [hour |-> hour, minute |-> minute]]
    ELSE [ok |-> FALSE, err |-> "ValueError"]

\* one part of Date._get_date: None for a part that starts with "-", else int(part)
DatePart(t, a, b) ==
    IF t[a + 1] = 45 THEN [ok |-> TRUE, value |-> None]
    ELSE IF IsDigits(Slice(t, a, b))
         THEN [ok |-> TRUE, value |-> Some(ParseInt(Slice(t, a, b)))]
         ELSE [ok |-> FALSE, err |-> "ValueError"]

\* the tuple Date._get_date returns, from its three parts
DateParts(y, m, d) ==
    IF y.ok /\ m.ok /\ d.ok
    THEN [ok |-> TRUE, year |-> y.value, month |-> m.value, day |-> d.value]
    ELSE [ok |-> FALSE, err |-> "ValueError"]

\* Date._get_date on the text t of the frame
get_date_of_text(t) ==
    IF Len(t) < 9 THEN [ok |-> FALSE, err |-> "IndexError"]
    ELSE DateParts(DatePart(t, 0, 4), DatePart(t, 5, 7), DatePart(t, 8, 10))

\* Date._get_date: [ok, year, month, day] with optional parts; ok = FALSE when the
\* text cannot be decoded, is too short, or a part is not a number
get_date(f) ==
    IF ~TextDecodable(f) THEN [ok |-> FALSE, err |-> "KeyError"]
    ELSE get_date_of_text(text(f))

\* Date.date when _get_date returns g
date_of(g) ==
    IF ~g.ok THEN g
    ELSE IF IsNone(g.year) THEN [ok |-> FALSE, err |-> "Missing year"]
    ELSE IF IsNone(g.month) THEN [ok |-> FALSE, err |-> "Missing month"]
    ELSE IF IsNone(g.day) THEN [ok |-> FALSE, err |-> "Missing day"]
    ELSE MkDate(Val(g.year), Val(g.month), Val(g.day))

\* Date.date: [ok, value]
Date_date(f) == date_of(get_date(f))

\* hour, minute = [int(v) for v in parts], then datetime.time(hour, minute)
TimeOfParts(parts) ==
    IF Len(parts) = 2 /\ IsDigits(parts[1]) /\ IsDigits(parts[2])
    THEN MkTime(ParseInt(parts[1]), ParseInt(parts[2]))
    ELSE [ok |-> FALSE, err |-> "ValueError"]

\* hour, minute = [int(v) for v in s.split(":")], then datetime.time(hour, minute)
ParseTime(s) == TimeOfParts(SplitOn(s, 58))

\* Time.time: [ok, value]
Time_time(f) ==
    IF ~TextDecodable(f) THEN [ok |-> FALSE, err |-> "KeyError"] ELSE ParseTime(text(f))

\* the tuple StartEndTime._get_start_end_times returns, from its two times
StartEnd(s, e) ==
    IF s.ok /\ e.ok THEN [ok |-> TRUE, start_time |-> s.value, end_time |-> e.value]
    ELSE [ok |-> FALSE, err |-> "ValueError"]

\* StartEndTime._get_start_end_times on self.text.split("~")
StartEndOfList(time_str_list) ==
    IF Len(time_str_list) < 2 THEN [ok |-> FALSE, err |-> "IndexError"]
    ELSE StartEnd(ParseTime(time_str_list[1]), ParseTime(time_str_list[2]))

\* StartEndTime._get_start_end_times: [ok, start_time, end_time]
get_start_end_times(f) ==
    IF ~TextDecodable(f) THEN [ok |-> FALSE, err |-> "KeyError"]
    ELSE StartEndOfList(SplitOn(text(f), 126))

(***************************************************************************)
(* Records: a record is [kind, <fields>]; from_frames returns [ok, rec] or *)
(* [ok |-> FALSE, err] for an exception, to_frames [ok, frames] likewise   *)
(***************************************************************************)

Err(msg) == [ok |-> FALSE, err |-> msg]

\* _raw_list_to_text_list: trailing None are dropped, the others become ""
raw_list_to_text_list(raw_list) ==
    LET data == {i \in 1..Len(raw_list) : ~IsNone(raw_list[i])}
        n == IF data = {} THEN 0 ELSE CHOOSE i \in data : \A j \in data : j <= i
    IN  [i \in 1..n |-> IF IsNone(raw_list[i]) THEN <<>> ELSE Val(raw_list[i])]

\* frames.append(Color.from_color(self.color)) when the colour is set
ColorFrames(color) == IF IsNone(color) THEN <<>> ELSE <<from_color(Val(color))>>

\* Color frames, if any, followed by Text.from_text_list(text_list)
ColorAndText(color, text_list) ==
    LET t == from_text_list(text_list)
    IN  IF t.ok THEN [ok |-> TRUE, frames |-> ColorFrames(color) \o t.frames] ELSE t

RECURSIVE TextColorScan(_, _, _)
\* the loop of Telephone / BusinessCard / Memo / Expense.from_frames: the colour of the
\* last Color frame and the concatenated text of the Text frames: [ok, text, color]
TextColorScan(frames, txt, color) ==
    IF frames = <<>> THEN [ok |-> TRUE, text |-> txt, color |-> color]
    ELSE LET f == frames[1]
         IN  IF IsInstance(f, "Color")
             THEN TextColorScan(Tail(frames), txt, Some(Color_color(f)))
             ELSE IF IsInstance(f, "Text")
             THEN IF TextDecodable(f)
                  THEN TextColorScan(Tail(frames), txt \o text(f), color)
                  ELSE Err("KeyError")
             ELSE Err("Unknown frame type")

\* [None if v == "" else v for v in text.split(chr(0x1F))]
Fields(txt) ==
    LET parts == SplitOn(txt, 31)
    IN  [i \in 1..Len(parts) |-> IF parts[i] = <<>> THEN None ELSE Some(parts[i])]

\* fields[i] if len(fields) > i else None (i is 0-based)
FieldAt(fields, i) == IF Len(fields) > i THEN fields[i + 1] ELSE None

Telephone(name, number, address, free1, free2, free3, free4, free5, free6, color) ==
    [kind |-> "Telephone", name |-> name, number |-> number, address |-> address,
     free1 |-> free1, free2 |-> free2, free3 |-> free3, free4 |-> free4,
     free5 |-> free5, free6 |-> free6, color |-> color]

Telephone_from_frames(frames) ==
    LET s == TextColorScan(frames, <<>>, None)
    IN  IF ~s.ok THEN s
        ELSE LET fields == Fields(s.text)
             IN  IF IsNone(fields[1]) THEN Err("Missing name text field")
                 ELSE [ok |-> TRUE,
                       rec |-> Telephone(Val(fields[1]), FieldAt(fields, 1),
                                         FieldAt(fields, 2), FieldAt(fields, 3),
                                         FieldAt(fields, 4), FieldAt(fields, 5),
                                         FieldAt(fields, 6), FieldAt(fields, 7),
                                         FieldAt(fields, 8), s.color)]

Telephone_to_frames(r) ==
    ColorAndText(r.color,
                 raw_list_to_text_list(<<Some(r.name), r.number, r.address, r.free1,
                                         r.free2, r.free3, r.free4, r.free5,
                                         r.free6>>))

BusinessCard(employer, name, telephone_number, telex_number, fax_number, position, department, po_box, address, memo, color) ==
    [kind |-> "BusinessCard", employer |-> employer, name |-> name,
     telephone_number |-> telephone_number, telex_number |-> telex_number,
     fax_number |-> fax_number, position |-> position, department |-> department,
     po_box |-> po_box, address |-> address, memo |-> memo, color |-> color]

BusinessCard_from_frames(frames) ==
    LET s == TextColorScan(frames, <<>>, None)
    IN  IF ~s.ok THEN s
        ELSE LET fields == Fields(s.text)
             IN  IF Len(fields) < 2 THEN Err("Missing name and / or employer text frame")
                 ELSE IF IsNone(fields[1]) THEN Err("Missing employer")
                 ELSE IF IsNone(fields[2]) THEN Err("Missing name")
                 ELSE [ok |-> TRUE,
                       rec |-> BusinessCard(Val(fields[1]), Val(fields[2]),
                                            FieldAt(fields, 2), FieldAt(fields, 3),
                                            FieldAt(fields, 4), FieldAt(fields, 5),
                                            FieldAt(fields, 6), FieldAt(fields, 7),
                                            FieldAt(fields, 8), FieldAt(fields, 9),
                                            s.color)]

BusinessCard_to_frames(r) ==
    ColorAndText(r.color,
                 raw_list_to_text_list(<<Some(r.employer), Some(r.name),
                                         r.telephone_number, r.telex_number,
                                         r.fax_number, r.position, r.department,
                                         r.po_box, r.address, r.memo>>))

Memo(txt, color) == [kind |-> "Memo", text |-> txt, color |-> color]

Memo_from_frames(frames) ==
    LET s == TextColorScan(frames, <<>>, None)
    IN  IF ~s.ok THEN s ELSE [ok |-> TRUE, rec |-> Memo(s.text, s.color)]

Memo_to_frames(r) == ColorAndText(r.color, <<r.text>>)

\* the loop state with field set to t, the result of f.time
SetTime(st, field, t) == IF t.ok THEN [st EXCEPT ![field] = Some(t.value)] ELSE t

\* the loop state with field set to d, the result of f.date
SetDate(st, field, d) == IF d.ok THEN [st EXCEPT ![field] = Some(d.value)] ELSE d

\* the Date branch of the loop of Calendar.from_frames, g being f._get_date()
Calendar_date(st, g) ==
    IF ~g.ok THEN g
    ELSE IF IsNone(g.year) THEN Err("Missing year")
    ELSE IF IsNone(g.month) THEN Err("Missing month")
    ELSE [st EXCEPT !.year = Val(g.year), !.month = Val(g.month)]

\* the DayColorHighlight branch of the loop of Calendar.from_frames, ch being
\* f._get_day_color_highlight()
Calendar_colors(st, ch) ==
    IF ~ch.ok THEN ch
    ELSE [st EXCEPT !.days = @ \cup DayColorHighlight_days(ch.value),
                    !.colors = Some(DayColorHighlight_colors(ch.value))]

\* the StartEndTime branch of the loop of Schedule.from_frames, t being
\* f._get_start_end_times()
Schedule_times(st, t) ==
    IF t.ok
    THEN [st EXCEPT !.start_time = Some(t.start_time), !.end_time = Some(t.end_time)]
    ELSE t

\* the Date branch of the loop of Reminder.from_frames, g being f._get_date()
Reminder_date(st, g) ==
    IF ~g.ok THEN g
    ELSE IF ~IsNone(g.year) THEN Err("cant set reminder for a single year")
    ELSE [st EXCEPT !.month = g.month, !.day = g.day]

\* the body of the loop of Calendar.from_frames
Calendar_step(st, f) ==
    IF IsInstance(f, "Date") THEN Calendar_date(st, get_date(f))
    ELSE IF IsInstance(f, "DayHighlight")
    THEN [st EXCEPT !.days = @ \cup DayHighlight_days(f)]
    ELSE IF IsInstance(f, "DayColorHighlight")
    THEN Calendar_colors(st, get_day_color_highlight(f))
    ELSE Err("Unknown frame type")

\* the body of the loop of Schedule.from_frames
Schedule_step(st, f) ==
    IF IsInstance(f, "Color") THEN [st EXCEPT !.color = Some(Color_color(f))]
    ELSE IF IsInstance(f, "Date") THEN SetDate(st, "date", Date_date(f))
    ELSE IF IsInstance(f, "StartEndTime") THEN Schedule_times(st, get_start_end_times(f))
    ELSE IF IsInstance(f, "Alarm") THEN SetTime(st, "alarm_time", Time_time(f))
    ELSE IF IsInstance(f, "Illustration")
    THEN [st EXCEPT !.illustration = Some(Illustration_number(f))]
    ELSE IF IsInstance(f, "Text")
    THEN IF ~TextDecodable(f) THEN Err("KeyError")
         ELSE [st EXCEPT !.description =
                   Some((IF IsNone(@) THEN <<>> ELSE Val(@)) \o text(f))]
    ELSE IF IsInstance(f, "Time") THEN SetTime(st, "start_time", Time_time(f))
    ELSE Err("Unknown frame type")

\* the body of the loop of Reminder.from_frames
Reminder_step(st, f) ==
    IF IsInstance(f, "Color") THEN [st EXCEPT !.color = Some(Color_color(f))]
    ELSE IF IsInstance(f, "Date") THEN Reminder_date(st, get_date(f))
    ELSE IF IsInstance(f, "Alarm") THEN SetTime(st, "alarm_time", Time_time(f))
    ELSE IF IsInstance(f, "Text")
    THEN IF ~TextDecodable(f) THEN Err("KeyError")
         ELSE [st EXCEPT !.description = text(f)]
    ELSE Err("Unknown frame type")

\* the body of the loop of ToDo.from_frames
ToDo_step(st, f) ==
    IF IsInstance(f, "DeadlineDate") THEN SetDate(st, "deadline_date", Date_date(f))
    ELSE IF IsInstance(f, "DeadlineTime") THEN SetTime(st, "deadline_time", Time_time(f))
    ELSE IF IsInstance(f, "ToDoAlarm") THEN SetTime(st, "alarm", Time_time(f))
    ELSE IF IsInstance(f, "Date") THEN SetDate(st, "checked_date", Date_date(f))
    ELSE IF IsInstance(f, "Time") THEN SetTime(st, "checked_time", Time_time(f))
    ELSE IF IsInstance(f, "Text")
    THEN IF ~TextDecodable(f) THEN Err("KeyError")
         ELSE [st EXCEPT !.description = text(f)]
    ELSE IF IsInstance(f, "Priority")
    THEN [st EXCEPT !.priority = Some(Priority_priority(f))]
    ELSE Err("Unknown frame type")

RECURSIVE Calendar_loop(_, _)
\* "for f in frames:" of Calendar.from_frames: the body is applied to each frame in turn
\* until one raises
Calendar_loop(frames, st) ==
    IF frames = <<>> \/ ~st.ok THEN st
    ELSE Calendar_loop(Tail(frames), Calendar_step(st, frames[1]))

RECURSIVE Schedule_loop(_, _)
\* "for f in frames:" of Schedule.from_frames: the body is applied to each frame in turn
\* until one raises
Schedule_loop(frames, st) ==
    IF frames = <<>> \/ ~st.ok THEN st
    ELSE Schedule_loop(Tail(frames), Schedule_step(st, frames[1]))

RECURSIVE Reminder_loop(_, _)
\* "for f in frames:" of Reminder.from_frames: the body is applied to each frame in turn
\* until one raises
Reminder_loop(frames, st) ==
    IF frames = <<>> \/ ~st.ok THEN st
    ELSE Reminder_loop(Tail(frames), Reminder_step(st, frames[1]))

RECURSIVE ToDo_loop(_, _)
\* "for f in frames:" of ToDo.from_frames: the body is applied to each frame in turn
\* until one raises
ToDo_loop(frames, st) ==
    IF frames = <<>> \/ ~st.ok THEN st
    ELSE ToDo_loop(Tail(frames), ToDo_step(st, frames[1]))

Calendar(year, month, days, colors) ==
    [kind |-> "Calendar", year |-> year, month |-> month, days |-> days,
     colors |-> colors]

\* what Calendar.from_frames does after its loop, st being the locals
Calendar_return(st) ==
    IF ~st.ok THEN st
    ELSE IF st.year = 0 \/ st.month = 0 THEN Err("Missing Date frame")
    ELSE [ok |-> TRUE, rec |-> Calendar(st.year, st.month, st.days, st.colors)]

Calendar_from_frames(frames) ==
    Calendar_return(
        Calendar_loop(frames, [ok |-> TRUE, year |-> 0, month |-> 0, days |-> {},
                               colors |-> None]))

\* Calendar.to_frames, for days within 1..31 and, if set, fewer than 32 colours
Calendar_to_frames(r) ==
    LET d == MkDate(r.year, r.month, 1)
    IN  IF ~d.ok THEN d
        ELSE [ok |-> TRUE,
              frames |-> <<from_date("Date", d.value), from_days(r.days)>>
                           \o (IF IsNone(r.colors) THEN <<>>
                               ELSE <<from_days_and_colors(r.days, Val(r.colors))>>)]

\* Schedule.__post_init__: the message of the ValueError, or "" when none is raised
Schedule_post_init(r) ==
    IF IsNone(r.start_time) /\ IsNone(r.description)
    THEN "either start time or description must be set"
    ELSE IF ~IsNone(r.end_time) /\ IsNone(r.start_time)
    THEN "can't set end time without start time"
    ELSE IF ~IsNone(r.alarm_time) /\ IsNone(r.start_time)
    THEN "cant set alarm time without start time"
    ELSE ""

Schedule(date, start_time, end_time, alarm_time, illustration, description, color) ==
    [kind |-> "Schedule", date |-> date, start_time |-> start_time,
     end_time |-> end_time, alarm_time |-> alarm_time, illustration |-> illustration,
     description |-> description, color |-> color]

\* cls(...): the record, unless __post_init__ raises
Schedule_new(r) ==
    IF Schedule_post_init(r) # "" THEN Err(Schedule_post_init(r))
    ELSE [ok |-> TRUE, rec |-> r]

\* what Schedule.from_frames does after its loop, st being the locals
Schedule_return(st) ==
    IF ~st.ok THEN st
    ELSE IF IsNone(st.date) THEN Err("Missing date")
    ELSE Schedule_new(Schedule(Val(st.date), st.start_time, st.end_time, st.alarm_time,
                               st.illustration, st.description, st.color))

Schedule_from_frames(frames) ==
    Schedule_return(
        Schedule_loop(frames, [ok |-> TRUE, color |-> None, date |-> None,
                               start_time |-> None, end_time |-> None,
                               alarm_time |-> None, illustration |-> None,
                               description |-> None]))

Schedule_to_frames_time_only(r) ==
    LET head == <<from_date("Date", r.date)>>
                  \o (IF IsNone(r.start_time) THEN <<>>
                      ELSE <<from_time("Time", Val(r.start_time))>>)
                  \o (IF IsNone(r.alarm_time) THEN <<>>
                      ELSE <<from_time("Alarm", Val(r.alarm_time))>>)
                  \o (IF IsNone(r.illustration) THEN <<>>
                      ELSE <<from_number(Val(r.illustration))>>)
                  \o ColorFrames(r.color)
    IN  IF IsNone(r.description) THEN [ok |-> TRUE, frames |-> head]
        ELSE LET t == from_text(Val(r.description))
             IN  IF t.ok THEN [ok |-> TRUE, frames |-> head \o t.frames] ELSE t

Schedule_to_frames(r) ==
    LET head == <<from_date("Date", r.date)>>
                  \o (IF IsNone(r.start_time) THEN <<>>
                      ELSE IF IsNone(r.end_time)
                      THEN <<from_time("Time", Val(r.start_time))>>
                      ELSE <<from_start_end_times(Val(r.start_time), Val(r.end_time))>>)
                  \o (IF IsNone(r.alarm_time) THEN <<>>
                      ELSE <<from_time("Alarm", Val(r.alarm_time))>>)
                  \o (IF IsNone(r.illustration) THEN <<>>
                      ELSE <<from_number(Val(r.illustration))>>)
                  \o ColorFrames(r.color)
    IN  IF IsNone(r.description) THEN [ok |-> TRUE, frames |-> head]
        ELSE LET t == from_text(Val(r.description))
             IN  IF t.ok THEN [ok |-> TRUE, frames |-> head \o t.frames] ELSE t

\* Reminder.__post_init__: the message of the ValueError, or "" when none is raised
Reminder_post_init(r) ==
    IF ~IsNone(r.month) /\ IsNone(r.day) THEN "cant set month without day" ELSE ""

Reminder(month, day, alarm_time, description, color) ==
    [kind |-> "Reminder", month |-> month, day |-> day, alarm_time |-> alarm_time,
     description |-> description, color |-> color]

\* cls(...): the record, unless __post_init__ raises
Reminder_new(r) ==
    IF Reminder_post_init(r) # "" THEN Err(Reminder_post_init(r))
    ELSE [ok |-> TRUE, rec |-> r]

\* what Reminder.from_frames does after its loop, st being the locals
Reminder_return(st) ==
    IF ~st.ok THEN st
    ELSE IF st.description = <<>> THEN Err("Missing description")
    ELSE Reminder_new(Reminder(st.month, st.day, st.alarm_time, st.description,
                               st.color))

Reminder_from_frames(frames) ==
    Reminder_return(
        Reminder_loop(frames, [ok |-> TRUE, color |-> None, month |-> None,
                               day |-> None, alarm_time |-> None,
                               description |-> <<>>]))

Reminder_to_frames(r) ==
    LET t == from_text(r.description)
    IN  IF ~t.ok THEN t
        ELSE [ok |-> TRUE,
              frames |-> <<from_values("Date", None, r.month, r.day)>>
                           \o (IF IsNone(r.alarm_time) THEN <<>>
                               ELSE <<from_time("Alarm", Val(r.alarm_time))>>)
                           \o t.frames
                           \o ColorFrames(r.color)]

\* ToDo.__post_init__: the message of the ValueError, or "" when none is raised
ToDo_post_init(r) ==
    IF ~IsNone(r.deadline_time) /\ IsNone(r.deadline_date) THEN "Missing deadline_date"
    ELSE IF ~IsNone(r.alarm) /\ IsNone(r.deadline_date) THEN "Missing deadline_date"
    ELSE IF ~IsNone(r.checked_time) /\ IsNone(r.checked_date) THEN "Missing checked_date"
    ELSE IF ~IsNone(r.checked_time) /\ IsNone(r.deadline_date)
    THEN "Missing deadline_date"
    ELSE ""

ToDo(deadline_date, deadline_time, alarm, checked_date, checked_time, description, priority) ==
    [kind |-> "ToDo", deadline_date |-> deadline_date, deadline_time |-> deadline_time,
     alarm |-> alarm, checked_date |-> checked_date, checked_time |-> checked_time,
     description |-> description, priority |-> priority]

\* cls(...): the record, unless __post_init__ raises
ToDo_new(r) ==
    IF ToDo_post_init(r) # "" THEN Err(ToDo_post_init(r)) ELSE [ok |-> TRUE, rec |-> r]

\* what ToDo.from_frames does after its loop, st being the locals
ToDo_return(st) ==
    IF ~st.ok THEN st
    ELSE IF st.description = <<>> THEN Err("Missing description")
    ELSE ToDo_new(ToDo(st.deadline_date, st.deadline_time, st.alarm, st.checked_date,
                       st.checked_time, st.description, st.priority))

ToDo_from_frames(frames) ==
    ToDo_return(
        ToDo_loop(frames, [ok |-> TRUE, deadline_date |-> None, deadline_time |-> None,
                           alarm |-> None, checked_date |-> None, checked_time |-> None,
                           description |-> <<>>, priority |-> None]))

ToDo_to_frames(r) ==
    LET t == from_text(r.description)
    IN  IF ~t.ok THEN t
        ELSE [ok |-> TRUE,
              frames |->
                  (IF IsNone(r.deadline_date) THEN <<>>
                   ELSE <<from_date("DeadlineDate", Val(r.deadline_date))>>)
                  \o (IF IsNone(r.deadline_time) THEN <<>>
                      ELSE <<from_time("DeadlineTime", Val(r.deadline_time))>>)
                  \o (IF IsNone(r.alarm) THEN <<>>
                      ELSE <<from_time("ToDoAlarm", Val(r.alarm))>>)
                  \o (IF IsNone(r.checked_date) THEN <<>>
                      ELSE <<from_date("Date", Val(r.checked_date))>>)
                  \o (IF IsNone(r.checked_time) THEN <<>>
                      ELSE <<from_time("Time", Val(r.checked_time))>>)
                  \o (IF IsNone(r.priority) THEN <<>>
                      ELSE <<from_priority(Val(r.priority))>>)
                  \o t.frames]

\* An amount is a float with at most one decimal digit, held as its number of tenths.
\* str(amount), e.g. "12.5", "3.0", "-0.5"
FloatStr(n) ==
    LET a == IF n < 0 THEN 0 - n ELSE n
    IN  (IF n < 0 THEN <<45>> ELSE <<>>)
            \o DecimalDigits(a \div 10) \o <<46>> \o DecimalDigits(a % 10)

\* float(s) for digits with an optional sign and an optional one digit fraction:
\* [ok, value], ok = FALSE for the ValueError of anything else
ParseFloat(s) ==
    LET neg == s # <<>> /\ s[1] = 45
        parts == SplitOn(IF neg THEN Tail(s) ELSE s, 46)
        sign == IF neg THEN 0 - 1 ELSE 1
    IN  IF Len(parts) = 1 /\ IsDigits(parts[1])
        THEN [ok |-> TRUE, value |-> sign * 10 * ParseInt(parts[1])]
        ELSE IF Len(parts) = 2 /\ IsDigits(parts[1]) /\ IsDigits(parts[2])
                /\ Len(parts[2]) = 1
        THEN [ok |-> TRUE, value |-> sign * (10 * ParseInt(parts[1]) + ParseInt(parts[2]))]
        ELSE Err("ValueError")

Expense(date, amount, payment_type, expense_type, rcpt, bus, description, color) ==
    [kind |-> "Expense", date |-> date, amount |-> amount,
     payment_type |-> payment_type, expense_type |-> expense_type, rcpt |-> rcpt,
     bus |-> bus, description |-> description, color |-> color]

\* year_str, month_str, day_str = date_str.split(" "), then datetime.date of the ints
ParseExpenseDate(date_str) ==
    LET parts == SplitOn(date_str, 32)
    IN  IF Len(parts) = 3 /\ \A i \in 1..3 : IsDigits(parts[i])
        THEN MkDate(ParseInt(parts[1]), ParseInt(parts[2]), ParseInt(parts[3]))
        ELSE Err("ValueError")

Expense_from_frames(frames) ==
    LET s == TextColorScan(frames, <<>>, None)
    IN  IF ~s.ok THEN s
        ELSE LET fields == Fields(s.text)
             IN  IF Len(fields) < 2 THEN Err("Missing date and/or amount.")
                 ELSE IF IsNone(fields[1]) THEN Err("AssertionError")
                 ELSE LET date == ParseExpenseDate(Val(fields[1]))
                      IN  IF ~date.ok THEN date
                          ELSE IF IsNone(fields[2]) THEN Err("AssertionError")
                          ELSE LET amount == ParseFloat(Val(fields[2]))
                               IN  IF ~amount.ok THEN amount
                                   ELSE [ok |-> TRUE,
                                         rec |-> Expense(date.value, amount.value,
                                                         FieldAt(fields, 2),
                                                         FieldAt(fields, 3),
                                                         FieldAt(fields, 4),
                                                         FieldAt(fields, 5),
                                                         FieldAt(fields, 6), s.color)]

\* "x if x else ''" for an optional str
OrEmpty(o) == IF IsNone(o) THEN <<>> ELSE Val(o)

Expense_to_frames(r) ==
    ColorAndText(r.color,
                 <<DecimalDigits(r.date.year) \o <<32>> \o DecimalDigits(r.date.month)
                       \o <<32>> \o DecimalDigits(r.date.day),
                   FloatStr(r.amount), OrEmpty(r.payment_type), OrEmpty(r.expense_type),
                   OrEmpty(r.rcpt), OrEmpty(r.bus), OrEmpty(r.description)>>)

\* cls.from_frames for the record class cls
from_frames(cls, frames) ==
    CASE cls = "Telephone" -> Telephone_from_frames(frames)
      [] cls = "BusinessCard" -> BusinessCard_from_frames(frames)
      [] cls = "Memo" -> Memo_from_frames(frames)
      [] cls = "Calendar" -> Calendar_from_frames(frames)
      [] cls = "Schedule" -> Schedule_from_frames(frames)
      [] cls = "Reminder" -> Reminder_from_frames(frames)
      [] cls = "ToDo" -> ToDo_from_frames(frames)
      [] cls = "Expense" -> Expense_from_frames(frames)

\* r.to_frames()
to_frames(r) ==
    CASE r.kind = "Telephone" -> Telephone_to_frames(r)
      [] r.kind = "BusinessCard" -> BusinessCard_to_frames(r)
      [] r.kind = "Memo" -> Memo_to_frames(r)
      [] r.kind = "Calendar" -> Calendar_to_frames(r)
      [] r.kind = "Schedule" -> Schedule_to_frames(r)
      [] r.kind = "Reminder" -> Reminder_to_frames(r)
      [] r.kind = "ToDo" -> ToDo_to_frames(r)
      [] r.kind = "Expense" -> Expense_to_frames(r)

\* the invariants of a record: those its __post_init__ enforces, and for a Reminder
\* and a ToDo the non-empty description from_frames insists on
RecordInvariant(r) ==
    CASE r.kind = "Schedule" -> Schedule_post_init(r) = ""
      [] r.kind = "Reminder" -> Reminder_post_init(r) = "" /\ r.description # <<>>
      [] r.kind = "ToDo" -> ToDo_post_init(r) = "" /\ r.description # <<>>
      [] OTHER -> TRUE

(***************************************************************************)
(* Decoder: the object is a record of its attributes, an attribute that    *)
(* was never assigned is None; a method is an operator from the object and *)
(* the arguments to the object afterwards                                  *)
(***************************************************************************)

\* the characters int() strips from the ends of a string, among chr(0)..chr(255)
IntWhitespace == (9..13) \cup {32, 133, 160}

\* int(chr(high) + chr(low), 16): None when it raises ValueError
int16(high, low) ==
    IF IsHexDigit(high) /\ IsHexDigit(low) THEN Some(decode_hex(high, low))
    ELSE IF high \in IntWhitespace \cup {43} /\ IsHexDigit(low) THEN Some(HexValue(low))
    ELSE IF high = 45 /\ IsHexDigit(low) THEN Some(0 - HexValue(low))
    ELSE IF IsHexDigit(high) /\ low \in IntWhitespace THEN Some(HexValue(high))
    ELSE None

\* the text of an annotation: label is its fixed part; value, frames and record are
\* what is formatted into it
AnnText(label, value, frames, record) ==
    [label |-> label, value |-> value, frames |-> frames, record |-> record]

\* one call of self.put(startsample, endsample, self.out_ann, [index of name, [text]]);
\* of is the class a "frame-type-" or "sender-record-" name is made of
Ann(startsample, endsample, name, of, txt) ==
    [startsample |-> startsample, endsample |-> endsample, name |-> name, of |-> of,
     text |-> txt]

Label(label) == AnnText(label, 0, <<>>, None)

\* self.put of the sender sub-machine: anns is all it has put since the object was
\* constructed or reset, out what the running decode() has put
put(self, a) == [self EXCEPT !.anns = Append(@, a), !.out = Append(@, a)]

\* an exception leaves the running decode()
raise(self, type, msg) == [self EXCEPT !.exc = Some([type |-> type, msg |-> msg])]

\* Decoder.reset
reset(self) ==
    [self EXCEPT !.sender_decode_function = "_decode_sender_sync_or_frame",
                 !.frame_builder = FrameBuilder_init,
                 !.record_state = "directory_or_record"]

\* Decoder.__init__: reset() on an object with no attribute yet
Decoder_init ==
    reset([sender_decode_function |-> "", frame_builder |-> None, record_state |-> "",
           hex_high_value |-> None, chunk_startsample |-> None,
           frame_startsample |-> None, record_startsample |-> None,
           record_directory_type |-> None, record_frames |-> None,
           anns |-> <<>>, out |-> <<>>, exc |-> None])

\* Decoder._decode_receiver: the annotation it puts
receiver_annotation(startsample, endsample, data) ==
    IF data = 17 THEN Ann(startsample, endsample, "receiver-xon", "", Label("XON"))
    ELSE IF data = 19 THEN Ann(startsample, endsample, "receiver-xoff", "", Label("XOFF"))
    ELSE IF data = 35 THEN Ann(startsample, endsample, "receiver-ack", "", Label("Ack"))
    ELSE IF data = 63 THEN Ann(startsample, endsample, "receiver-nack", "", Label("NACK"))
    ELSE Ann(startsample, endsample, "receiver-warning", "", Label("?"))

\* a _decode_receiver that also sends the sender sub-machine back to the sync state
decode_receiver_resync(self, startsample, endsample, data) ==
    [self EXCEPT !.out = Append(@, receiver_annotation(startsample, endsample, data)),
                 !.sender_decode_function = "_decode_sender_sync_or_frame"]

\* Decoder._decode_receiver
decode_receiver(self, startsample, endsample, data) ==
    [self EXCEPT !.out = Append(@, receiver_annotation(startsample, endsample, data))]

\* what a sender decode function returns: the object and the bool
Returns(self, value) == [self |-> self, value |-> value]

\* a _decode_sender_sync_or_frame that takes the end of ':' as the frame's start
decode_sender_sync_or_frame_late(self, startsample, endsample, data) ==
    IF data = 13
    THEN Returns([put(self, Ann(startsample, endsample, "sync", "", Label("Sync 1/2")))
                     EXCEPT !.sender_decode_function = "_decode_sender_sync"], TRUE)
    ELSE IF data = 58
    THEN Returns([put(self, Ann(startsample, endsample, "frame-start", "",
                                Label("Frame Start")))
                     EXCEPT !.frame_startsample = Some(endsample),
                            !.sender_decode_function = "_decode_sender_frame"], TRUE)
    ELSE Returns(self, FALSE)

\* Decoder._decode_sender_sync_or_frame
decode_sender_sync_or_frame(self, startsample, endsample, data) ==
    IF data = 13
    THEN Returns([put(self, Ann(startsample, endsample, "sync", "", Label("Sync 1/2")))
                     EXCEPT !.sender_decode_function = "_decode_sender_sync"], TRUE)
    ELSE IF data = 58
    THEN Returns([put(self, Ann(startsample, endsample, "frame-start", "",
                                Label("Frame Start")))
                     EXCEPT !.frame_startsample = Some(startsample),
                            !.sender_decode_function = "_decode_sender_frame"], TRUE)
    ELSE Returns(self, FALSE)

\* Decoder._decode_sender_sync; "data is ord('\n')" compares as == does, the integers
\* of a byte being cached objects
decode_sender_sync(self, startsample, endsample, data) ==
    IF data = 10
    THEN Returns([put(self, Ann(startsample, endsample, "sync", "", Label("Sync 2/2")))
                     EXCEPT !.sender_decode_function = "_decode_sender_sync_or_frame"],
                 TRUE)
    ELSE Returns(self, FALSE)

\* Record.DIRECTORY_TO_RECORD: the record class of a directory class, the generic
\* Directory has none
RecordDirectories == DirectoryClasses \ {"Directory"}

DIRECTORY_TO_RECORD(directory) ==
    CASE directory = "TelephoneDirectory" -> "Telephone"
      [] directory = "BusinessCardDirectory" -> "BusinessCard"
      [] directory = "MemoDirectory" -> "Memo"
      [] directory = "CalendarDirectory" -> "Calendar"
      [] directory = "ScheduleDirectory" -> "Schedule"
      [] directory = "ReminderDirectory" -> "Reminder"
      [] directory = "ToDoDirectory" -> "ToDo"
      [] directory = "ExpenseManagerDirectory" -> "Expense"

\* str(frame): the exception it raises, "" when it returns
str_raises(f) ==
    IF IsInstance(f, "TextDataFrame") /\ ~TextDecodable(f) THEN "KeyError"
    ELSE IF f.kind = "DayColorHighlight" /\ ~get_day_color_highlight(f).ok
    THEN "UnboundLocalError"
    ELSE ""

\* _decode_record at EndOfRecord with a record class: decoded is what from_frames
\* returned or raised
record_annotation(self, endsample, decoded) ==
    IF decoded.ok
    THEN [put(self, Ann(Val(self.record_startsample), endsample, "sender-record-",
                        decoded.rec.kind, AnnText("", 0, <<>>, Some(decoded.rec))))
             EXCEPT !.record_state = "directory_or_record"]
    ELSE raise(self, "ValueError", decoded.err)

\* _decode_record at EndOfRecord without a record class
unknown_record(self, endsample) ==
    IF \E i \in 1..Len(self.record_frames) : str_raises(self.record_frames[i]) # ""
    THEN raise(self, "KeyError", "str(f)")
    ELSE [put(self, Ann(Val(self.record_startsample), endsample, "sender-warning", "",
                        AnnText("Unknown Record: ", 0, self.record_frames, None)))
             EXCEPT !.record_state = "directory_or_record"]

\* _decode_record: 'if self._record_state == "frames"'
decode_record_frames(self, endsample, decoded_frame) ==
    IF self.record_state # "frames" THEN self
    ELSE IF decoded_frame.kind # "EndOfRecord"
    THEN [self EXCEPT !.record_frames = Append(@, decoded_frame)]
    ELSE IF IsNone(self.record_directory_type)
    THEN raise(self, "AttributeError", "_record_directory_type")
    ELSE IF Val(self.record_directory_type) \in RecordDirectories
    THEN record_annotation(self, endsample,
                           from_frames(DIRECTORY_TO_RECORD(Val(self.record_directory_type)),
                                       self.record_frames))
    ELSE unknown_record(self, endsample)

\* _decode_record: 'if self._record_state == "start"' and what follows
decode_record_start(self, startsample, endsample, decoded_frame) ==
    decode_record_frames(IF self.record_state = "start"
                         THEN [self EXCEPT !.record_startsample = Some(startsample),
                                           !.record_state = "frames",
                                           !.record_frames = <<>>]
                         ELSE self,
                         endsample, decoded_frame)

\* Decoder._decode_record
decode_record(self, startsample, endsample, decoded_frame) ==
    IF self.record_state = "directory_or_record" /\ IsInstance(decoded_frame, "Directory")
    THEN [self EXCEPT !.record_state = "start",
                      !.record_directory_type = Some(decoded_frame.kind)]
    ELSE decode_record_start(IF self.record_state = "directory_or_record"
                             THEN [self EXCEPT !.record_state = "start"]
                             ELSE self,
                             startsample, endsample, decoded_frame)

\* _decode_sender_frame: after _decode_record returned or raised
frame_return(self) ==
    IF self.exc # None THEN Returns(self, TRUE)
    ELSE Returns([self EXCEPT !.frame_builder = FrameBuilder_init,
                              !.sender_decode_function = "_decode_sender_sync_or_frame"],
                 TRUE)

\* _decode_sender_frame: the annotation of the frame, a warning when
\* "type(decoded_frame) is frame_mod.Frame"
frame_annotation(self, endsample, decoded_frame) ==
    IF decoded_frame.kind = "Frame"
    THEN Ann(Val(self.frame_startsample), endsample, "sender-warning", "",
             AnnText("Unknown ", 0, <<decoded_frame>>, None))
    ELSE Ann(Val(self.frame_startsample), endsample, "frame-type-", decoded_frame.kind,
             AnnText("", 0, <<decoded_frame>>, None))

\* _decode_sender_frame: the annotation of the frame is put, then _decode_record is
\* called; str(decoded_frame), of which the annotation of a recognised frame is made,
\* may raise
frame_variant(self, endsample, decoded_frame) ==
    IF decoded_frame.kind # "Frame" /\ str_raises(decoded_frame) # ""
    THEN Returns(raise(self, str_raises(decoded_frame), "str(decoded_frame)"), TRUE)
    ELSE frame_return(decode_record(
             put(self, frame_annotation(self, endsample, decoded_frame)),
             Val(self.frame_startsample), endsample, decoded_frame))

\* _decode_sender_frame: "if not decoded_frame.is_checksum_valid()"
frame_checksum(self, endsample, decoded_frame) ==
    IF is_checksum_valid(decoded_frame) THEN self
    ELSE put(self, Ann(Val(self.chunk_startsample), endsample, "sender-warning", "",
                       Label("Bad Checksum")))

\* _decode_sender_frame: added is what self._frame_builder.add_data(value) returned
frame_chunk(self, endsample, value, added) ==
    IF IsNone(added.frame)
    THEN Returns(put([self EXCEPT !.frame_builder = added.fb],
                     Ann(Val(self.chunk_startsample), endsample, "frame-header", "",
                         AnnText(added.tag, value, <<>>, None))),
                 TRUE)
    ELSE frame_variant(
             frame_checksum(put([self EXCEPT !.frame_builder = added.fb],
                                Ann(Val(self.chunk_startsample), endsample,
                                    "frame-header", "",
                                    AnnText(added.tag, value, <<>>, None))),
                            endsample, Val(added.frame)),
             endsample, Val(added.frame))

\* Decoder._decode_hex on the second digit and what _decode_sender_frame does with
\* value, the result of int(): the attribute is deleted only when int() returned
frame_value(self, endsample, value) ==
    IF IsNone(value)
    THEN Returns(raise(self, "ValueError", "invalid literal for int() with base 16"), TRUE)
    ELSE frame_chunk([self EXCEPT !.hex_high_value = None], endsample, Val(value),
                     add_data(self.frame_builder, Val(value)))

\* Decoder._decode_sender_frame, with Decoder._decode_hex
decode_sender_frame(self, startsample, endsample, data) ==
    IF IsNone(self.hex_high_value)
    THEN Returns([self EXCEPT !.hex_high_value = Some(data),
                              !.chunk_startsample = Some(startsample)], TRUE)
    ELSE frame_value(self, endsample, int16(Val(self.hex_high_value), data))

\* self._sender_decode_function(startsample, endsample, data)
sender_decode_function(self, startsample, endsample, data) ==
    CASE self.sender_decode_function = "_decode_sender_sync_or_frame" ->
            decode_sender_sync_or_frame(self, startsample, endsample, data)
      [] self.sender_decode_function = "_decode_sender_sync" ->
            decode_sender_sync(self, startsample, endsample, data)
      [] self.sender_decode_function = "_decode_sender_frame" ->
            decode_sender_frame(self, startsample, endsample, data)

\* a _decode_sender that puts the warning and leaves the decode function as it is
decode_sender_warning_stay(returned, startsample, endsample) ==
    IF returned.value \/ returned.self.exc # None THEN returned.self
    ELSE put(returned.self, Ann(startsample, endsample, "sender-warning", "", Label("?")))

\* Decoder._decode_sender after the decode function returned
decode_sender_warning(returned, startsample, endsample) ==
    IF returned.value \/ returned.self.exc # None THEN returned.self
    ELSE [put(returned.self, Ann(startsample, endsample, "sender-warning", "", Label("?")))
             EXCEPT !.sender_decode_function = "_decode_sender_sync_or_frame"]

\* Decoder._decode_sender
decode_sender(self, startsample, endsample, data) ==
    decode_sender_warning(sender_decode_function(self, startsample, endsample, data),
                          startsample, endsample)

\* an item of the UART decoder below: (ptype, rxtx, pdata)
UartItem(ptype, rxtx, datavalue) == [ptype |-> ptype, rxtx |-> rxtx, datavalue |-> datavalue]

\* Decoder.decode with self.options["sender"] = sender
decode(self, sender, startsample, endsample, item) ==
    IF item.ptype # "DATA" \/ item.rxtx \notin {0, 1} THEN self
    ELSE IF (item.rxtx = 0 /\ sender = "RX") \/ (item.rxtx = 1 /\ sender = "TX")
    THEN decode_sender(self, startsample, endsample, item.datavalue)
    ELSE decode_receiver(self, startsample, endsample, item.datavalue)

(***************************************************************************)
(* Input domains                                                           *)
(***************************************************************************)

\* the longest text drawn from Alphabet character by character
MaxTextLen == 2

\* "a", " ", "\n"
Alphabet == {97, 32, 10}

ShortTexts == UNION {[1..n -> Alphabet] : n \in 0..MaxTextLen}

\* texts that are split into several frames, that cross offset 0x100, and that reach
\* MAX_LENGTH
LongTexts ==
    {Rep(97, 129),
     Rep(97, 120) \o <<32>> \o Rep(98, 20),
     Rep(97, 130) \o <<10>> \o Rep(98, 130),
     Rep(97, 376)}

Dates ==
    {[year |-> 2021, month |-> 2, day |-> 25],
     [year |-> 1999, month |-> 12, day |-> 31],
     [year |-> 1, month |-> 1, day |-> 1]}

Times ==
    {[hour |-> 0, minute |-> 0], [hour |-> 22, minute |-> 11],
     [hour |-> 23, minute |-> 59]}

\* sets of days of a month: every single day, days at both ends of a byte, the days
\* {1, 10, 19, 28} of DayHighlightTest, all days
DaySets ==
    SUBSET {1, 8, 9, 31} \cup {{1, 10, 19, 28}, 1..31} \cup {{d} : d \in 1..31}

ColorLists ==
    {Rep("BLUE", 31),
     [i \in 1..31 |-> ColorList[(i % 3) + 1]],
     [i \in 1..31 |-> ColorList[((i * i) % 3) + 1]]}

\* frames made with the Frame constructor itself; the first values are those of
\* FrameTest (length 3, type 0xF4, address 0x86, data [0, 1, 2], checksum 0x80)
RawFrames ==
    {MkFrame("Frame", l, t, a, d, c) :
        l \in {3, 0, 255}, t \in {244, 0, 255}, a \in {134, 0, 65280, 65535, 4660},
        d \in {<<0, 1, 2>>, <<>>, <<255, 255>>}, c \in {128, 0, 255}}

CodecTextLists ==
    {<<t>> : t \in ShortTexts \cup LongTexts}
        \cup {<<t, u>> : t \in {<<>>, <<97>>, Rep(97, 200)}, u \in {<<>>, <<98>>, Rep(98, 100)}}

\* the frames of the builder constructors
\* frames made with the Frame constructor whose length, type, address and data are
\* those of the frame classes in every combination, and data that no class has
MatchFrames ==
    {MkFrame("Frame", Len(d), t, a, d, 0) :
        t \in {0, 33, 113, 114, 120, 128, 129, 192, 196, 208, 224, 228, 240, 244},
        a \in {0, 256, 512, 65280},
        d \in {<<>>, <<0>>, <<1>>, <<0, 0>>, <<144, 0>>, <<144, 1>>, <<193, 0>>,
               <<97, 98, 99>>, Rep(0, 4), Rep(48, 5), Rep(48, 10), Rep(48, 11),
               Rep(0, 32)}}

BuilderFrames ==
    {get(cls) : cls \in DirectoryClasses \cup {"EndOfRecord", "EndOfTransmission"}}
        \cup {from_color(c) : c \in Colors}
        \cup {from_priority(p) : p \in Priorities}
        \cup {from_values("Date", y, m, d) :
                y \in {None, Some(2021)}, m \in {None, Some(2), Some(12)},
                d \in {None, Some(5), Some(31)}}
        \cup {from_date(cls, d) : cls \in DateClasses, d \in Dates}
        \cup {from_time(cls, t) : cls \in TimeClasses, t \in Times}
        \cup {from_start_end_times(t, u) : t \in Times, u \in Times}
        \cup {from_days(ds) : ds \in DaySets}
        \cup {from_days_and_colors(ds, cs) : ds \in DaySets, cs \in ColorLists}
        \cup {from_number(n) : n \in {0, 1, 7, 255}}
        \cup UNION {{from_text_list(tl).frames[i] : i \in 1..Len(from_text_list(tl).frames)} :
                      tl \in CodecTextLists}

(***************************************************************************)
(* Input domains of the records                                            *)
(***************************************************************************)

\* "a\nb": a description of two lines
TwoLines == <<97, 10, 98>>

RecTexts == ShortTexts \cup {TwoLines}

NonEmptyTexts == RecTexts \ {<<>>}

Opt(S) == {None} \cup {Some(x) : x \in S}

TelephoneRecords ==
    {Telephone(name, number, address, None, None, None, None, None, free6, color) :
        name \in NonEmptyTexts, number \in Opt({<<97>>}), address \in Opt({<<97, 32, 98>>}),
        free6 \in Opt({<<98>>}), color \in Opt(Colors)}

BusinessCardRecords ==
    {BusinessCard(<<97>>, name, telephone_number, None, None, None, None, None, None,
                  memo, color) :
        name \in NonEmptyTexts, telephone_number \in Opt({<<97>>}),
        memo \in Opt({<<98>>}), color \in Opt({"BLUE"})}

MemoRecords == {Memo(t, color) : t \in RecTexts \cup LongTexts, color \in Opt(Colors)}

CalendarRecords ==
    {Calendar(2021, month, days, colors) :
        month \in {2, 12}, days \in DaySets, colors \in Opt(ColorLists)}

ScheduleRecords ==
    {r \in {Schedule([year |-> 2021, month |-> 2, day |-> 25], start_time, end_time,
                     alarm_time, illustration, description, color) :
               start_time \in Opt({[hour |-> 22, minute |-> 11]}),
               end_time \in Opt({[hour |-> 23, minute |-> 59]}),
               alarm_time \in Opt({[hour |-> 0, minute |-> 0]}),
               illustration \in Opt({7}), description \in Opt(RecTexts),
               color \in Opt({"GREEN"})} :
        Schedule_post_init(r) = ""}

ReminderRecords ==
    {r \in {Reminder(month, day, alarm_time, description, color) :
               month \in Opt({2}), day \in Opt({5}),
               alarm_time \in Opt({[hour |-> 22, minute |-> 11]}),
               description \in NonEmptyTexts, color \in Opt({"ORANGE"})} :
        Reminder_post_init(r) = ""}

ToDoRecords ==
    {r \in {ToDo(deadline_date, deadline_time, alarm, checked_date, checked_time,
                 description, priority) :
               deadline_date \in Opt({[year |-> 2021, month |-> 2, day |-> 25]}),
               deadline_time \in Opt({[hour |-> 22, minute |-> 11]}),
               alarm \in Opt({[hour |-> 0, minute |-> 0]}),
               checked_date \in Opt({[year |-> 1999, month |-> 12, day |-> 31]}),
               checked_time \in Opt({[hour |-> 23, minute |-> 59]}),
               description \in NonEmptyTexts, priority \in Opt({"A"})} :
        ToDo_post_init(r) = ""}

ExpenseRecords ==
    {Expense(date, amount, payment_type, expense_type, None, None, description, color) :
        date \in {[year |-> 2021, month |-> 2, day |-> 25], [year |-> 1, month |-> 1, day |-> 1]},
        amount \in {0, 125, 0 - 5}, payment_type \in Opt({<<97>>}),
        expense_type \in Opt({<<98>>}), description \in Opt(NonEmptyTexts),
        color \in Opt({"BLUE"})}

Records ==
    TelephoneRecords \cup BusinessCardRecords \cup MemoRecords \cup CalendarRecords
        \cup ScheduleRecords \cup ReminderRecords \cup ToDoRecords \cup ExpenseRecords

(***************************************************************************)
(* State                                                                   *)
(***************************************************************************)

VARIABLES
    frame,      \* codec: the frame F that is serialized
    built,      \* codec: F was made by a builder constructor
    cpc,        \* codec: "built", "feeding", "fed", "verified"
    wire,       \* codec: F.bytes()
    pos,        \* codec: the index in wire of the next hexadecimal digit to decode
    fb,         \* codec: the FrameBuilder
    ret,        \* codec: what the last add_data returned, [tag, frame]
    valid,      \* codec: Some(F.is_checksum_valid()) once it was called
    rec,        \* record: the record R
    rframes,    \* record: what R.to_frames() returned, [ok, frames]
    rout,       \* record: what from_frames returned, [ok, rec]
    rpc,        \* record: "new", "framed", "failed", "parsed"
    data,       \* sender: the argument of send_directory_data, a list of
                \*   [directory, records] in the order of data.items()
    spc,        \* sender: the statement the sender is at
    pairs,      \* sender: the items of data still to be visited
    recs,       \* sender: the records of the current item still to be sent
    rfs,        \* sender: the frames of the current record still to be sent
    cur,        \* sender: the kind of the frame being written, "" in the handshake
    wbuf,       \* sender: the argument of the running FlowControlSerial.write
    widx,       \* sender: the index in wbuf of the byte b of its loop
    wret,       \* sender: where the running write returns to
    xoff,       \* sender: the local variable xoff of write
    read_buff,  \* sender: FlowControlSerial._read_buff
    rx,         \* channel: the bytes of the receiver that the sender has not read
    tx,         \* channel: the bytes the serial port accepted from the sender
    err,        \* sender: the exception that ended the session, if any
    rounds,     \* history: the rounds of the handshake started
    waits,      \* history: what each wait_for_xon read, None for a timeout
    log,        \* history: frames started and ended, acknowledgement bytes taken
    taken,      \* history: the last byte _wait_for_ack took
    lastFlow,   \* history: the last flow control byte write read, "none" if none
    checked,    \* history: in_waiting was evaluated since the last byte written
    nsent,      \* history: the number of bytes the receiver has sent
    is_open,    \* sender: the serial port of the FlowControlSerial is open
    arrived,    \* history: the bytes other than XON and XOFF that write, and the
                \*   bytes that read(), took off the serial port, in that order
    got,        \* history: what each FlowControlSerial.read() returned
    rcv,        \* receiver: the answers a receiver that keeps to the protocol has
                \*   sent, [xon, ack, xoff, paused]
    dec,        \* decoder: the Decoder object
    options,    \* decoder: self.options["sender"]
    capture,    \* decoder: all the sender bytes of the capture, as script is at first
    script,     \* decoder: the sender bytes the UART decoder has yet to deliver, each
                \*   a set of bytes of which one is delivered
    dn,         \* decoder: the sample at which the next sender byte starts
    twin,       \* history: a Decoder constructed at the last reset() of dec, or with
                \*   dec if there was none, and given the same items since
    uart,       \* decoder: the item of the last decode() call, NoItem after reset()
    nreset,     \* history: the number of calls of reset()
    texts,      \* text: the argument of Text.from_text_list, a list of str
    tframes,    \* text: what Text.from_text_list returned, [ok, frames]
    tdecoded,   \* text: the text of each frame returned, in order
    tpc         \* text: "new", "framed", "failed", "read"

\* the receiver has sent no answer, and has not asked the sender to pause
NoAnswer == [xon |-> 0, ack |-> 0, xoff |-> 0, paused |-> FALSE]

codecVars == <<frame, built, cpc, wire, pos, fb, ret, valid>>

recordVars == <<rec, rframes, rout, rpc>>

senderVars ==
    <<data, spc, pairs, recs, rfs, cur, wbuf, widx, wret, xoff, read_buff, rx, tx, err,
      rounds, waits, log, taken, lastFlow, checked, nsent, is_open, arrived, got,
      rcv>>

decoderVars == <<dec, options, capture, script, dn, twin, uart, nreset>>

textVars == <<texts, tframes, tdecoded, tpc>>

vars == <<codecVars, recordVars, senderVars, decoderVars, textVars>>

\* the variables of the parts that a specification does not exercise stay as they are
nonCodecVars == <<recordVars, senderVars, decoderVars, textVars>>

nonRecordVars == <<codecVars, senderVars, decoderVars, textVars>>

nonSenderVars == <<codecVars, recordVars, decoderVars, textVars>>

nonDecoderVars == <<codecVars, recordVars, senderVars, textVars>>

nonTextVars == <<codecVars, recordVars, senderVars, decoderVars>>

CodecIdle ==
    /\ frame = None
    /\ built = FALSE
    /\ cpc = "idle"
    /\ wire = <<>>
    /\ pos = 0
    /\ fb = FrameBuilder_init
    /\ ret = [tag |-> "", frame |-> None]
    /\ valid = None

RecordIdle ==
    /\ rec = None
    /\ rframes = None
    /\ rout = None
    /\ rpc = "idle"

SenderIdle ==
    /\ data = <<>>
    /\ spc = "idle"
    /\ pairs = <<>>
    /\ recs = <<>>
    /\ rfs = <<>>
    /\ cur = ""
    /\ wbuf = <<>>
    /\ widx = 0
    /\ wret = ""
    /\ xoff = FALSE
    /\ read_buff = <<>>
    /\ rx = <<>>
    /\ tx = <<>>
    /\ err = None
    /\ rounds = 0
    /\ waits = <<>>
    /\ log = <<>>
    /\ taken = None
    /\ lastFlow = "none"
    /\ checked = FALSE
    /\ nsent = 0
    /\ is_open = FALSE
    /\ arrived = <<>>
    /\ got = <<>>
    /\ rcv = NoAnswer

DecoderIdle ==
    /\ dec = None
    /\ options = ""
    /\ capture = <<>>
    /\ script = <<>>
    /\ dn = 0
    /\ twin = None
    /\ uart = [ptype |-> "", rxtx |-> 0, datavalue |-> 0]
    /\ nreset = 0

TextIdle ==
    /\ texts = <<>>
    /\ tframes = None
    /\ tdecoded = <<>>
    /\ tpc = "idle"

(***************************************************************************)
(* Codec: a frame is serialized, its hexadecimal pairs are decoded and fed *)
(* to a fresh FrameBuilder, and its checksum is verified                   *)
(***************************************************************************)

CodecInit ==
    /\ \/ built = TRUE /\ frame \in BuilderFrames
       \/ built = FALSE /\ frame \in RawFrames \cup MatchFrames
    /\ cpc = "built"
    /\ wire = <<>>
    /\ pos = 0
    /\ fb = FrameBuilder_init
    /\ ret = [tag |-> "", frame |-> None]
    /\ valid = None
    /\ RecordIdle
    /\ SenderIdle
    /\ DecoderIdle
    /\ TextIdle

\* F.bytes()
Serialize ==
    /\ cpc = "built"
    /\ wire' = bytes(frame)
    /\ pos' = 2
    /\ cpc' = "feeding"
    /\ UNCHANGED <<frame, built, fb, ret, valid>>
    /\ UNCHANGED nonCodecVars

\* the next two digits are decoded and the byte is passed to FrameBuilder.add_data
AddData ==
    /\ cpc = "feeding"
    /\ pos + 1 <= Len(wire)
    /\ LET r == add_data(fb, decode_hex(wire[pos], wire[pos + 1]))
       IN  /\ fb' = r.fb
           /\ ret' = [tag |-> r.tag, frame |-> r.frame]
    /\ pos' = pos + 2
    /\ cpc' = IF pos + 2 > Len(wire) THEN "fed" ELSE "feeding"
    /\ UNCHANGED <<frame, built, wire, valid>>
    /\ UNCHANGED nonCodecVars

\* F.is_checksum_valid()
Verify ==
    /\ cpc = "fed"
    /\ valid' = Some(is_checksum_valid(frame))
    /\ cpc' = "verified"
    /\ UNCHANGED <<frame, built, wire, pos, fb, ret>>
    /\ UNCHANGED nonCodecVars

CodecNext == Serialize \/ AddData \/ Verify

SpecCodec == CodecInit /\ [][CodecNext]_vars

(***************************************************************************)
(* Records: a record is turned into frames and the frames back into a      *)
(* record of its kind                                                      *)
(***************************************************************************)

RecordInit ==
    /\ rec \in Records
    /\ rframes = None
    /\ rout = None
    /\ rpc = "new"
    /\ CodecIdle
    /\ SenderIdle
    /\ DecoderIdle
    /\ TextIdle

\* R.to_frames()
ToFrames ==
    /\ rpc = "new"
    /\ rframes' = to_frames(rec)
    /\ rpc' = IF rframes'.ok THEN "framed" ELSE "failed"
    /\ UNCHANGED <<rec, rout>>
    /\ UNCHANGED nonRecordVars

\* from_frames of the class of R on the frames R.to_frames() returned
FromFrames ==
    /\ rpc = "framed"
    /\ rout' = from_frames(rec.kind, rframes.frames)
    /\ rpc' = "parsed"
    /\ UNCHANGED <<rec, rframes>>
    /\ UNCHANGED nonRecordVars

RecordNext == ToFrames \/ FromFrames

SpecRecord == RecordInit /\ [][RecordNext]_vars

(***************************************************************************)
(* Sender: Sender.send_directory_data over a FlowControlSerial, one step   *)
(* per statement that touches the serial port, with a receiver that may    *)
(* send any byte at any time                                               *)
(***************************************************************************)

\* serial.XON, serial.XOFF, serial.CR, serial.LF
XON == 17

XOFF == 19

CR == 13

LF == 10

\* Sender.ACK, Sender.NACK
ACK == 35

NACK == 63

\* the number of bytes the receiver sends in a session
MaxRx == 4

\* the number of bytes the receiver has sent that the sender has not read yet
MaxInFlight == 2

\* the number of rounds of the handshake
MaxRounds == 2

\* what the receiver may send: the four bytes of the protocol and "!"
ReceiverBytes == {XON, XOFF, ACK, NACK, 33}

\* a Memo whose to_frames raises ValueError: its text is one character outside
\* UNICODE_TO_CASIO
BadMemo == Memo(<<233>>, None)

Item(directory, records) == [directory |-> directory, records |-> records]

\* the dictionaries passed to send_directory_data
SenderInputs ==
    {<<>>,
     <<Item(get("TelephoneDirectory"), <<>>)>>,
     <<Item(get("MemoDirectory"), <<Memo(<<97>>, Some("BLUE"))>>)>>,
     <<Item(get("MemoDirectory"), <<BadMemo>>)>>,
     <<Item(get("ReminderDirectory"), <<>>),
       Item(get("MemoDirectory"), <<Memo(<<97>>, None)>>)>>}

\* the exception that ends a session
Raise(type, msg, value) == Some([type |-> type, msg |-> msg, value |-> value])

SenderInit ==
    /\ data \in SenderInputs
    /\ pairs = data
    /\ spc = "sync_cr"
    /\ recs = <<>>
    /\ rfs = <<>>
    /\ cur = ""
    /\ wbuf = <<>>
    /\ widx = 0
    /\ wret = ""
    /\ xoff = FALSE
    /\ read_buff = <<>>
    /\ rx = <<>>
    /\ tx = <<>>
    /\ err = None
    /\ rounds = 0
    /\ waits = <<>>
    /\ log = <<>>
    /\ taken = None
    /\ lastFlow = "none"
    /\ checked = FALSE
    /\ nsent = 0
    /\ is_open = TRUE
    /\ arrived = <<>>
    /\ got = <<>>
    /\ rcv = NoAnswer
    /\ CodecIdle
    /\ RecordIdle
    /\ DecoderIdle
    /\ TextIdle

\* __exit__ that closes the port only when the block was left without an exception
FlowControlSerial_exit_on_return(to) == to = "error"

\* FlowControlSerial.__exit__, called when the with block is left for "done" or
\* "error": self._serial.close(), the value of is_open after it
FlowControlSerial_exit(to) == FALSE

\* send_directory_data: "with FlowControlSerial(...) as ser", whose __exit__ is called
\* when the statement that was executed left the block, by the return of the last
\* _send_frame or by an exception
With ==
    is_open' = IF spc' \in {"done", "error"} THEN FlowControlSerial_exit(spc')
               ELSE is_open

\* the receiver sends one byte
Receive ==
    /\ spc \notin {"done", "error"}
    /\ nsent < MaxRx
    /\ Len(rx) < MaxInFlight
    /\ \E b \in ReceiverBytes : rx' = Append(rx, b)
    /\ nsent' = nsent + 1
    /\ UNCHANGED <<data, spc, pairs, recs, rfs, cur, wbuf, widx, wret, xoff, read_buff,
                   tx, err, rounds, waits, log, taken, lastFlow, checked>>
    /\ UNCHANGED <<arrived, got>>
    /\ With
    /\ UNCHANGED rcv
    /\ UNCHANGED nonSenderVars

\* ser.write(b) is called: "for b in data: xoff = False"
BeginWrite(b, to) ==
    /\ wbuf' = b
    /\ widx' = 1
    /\ wret' = to
    /\ xoff' = FALSE
    /\ spc' = "w_check"

\* Sender._sync: ser.write(serial.CR)
SyncCR ==
    /\ spc = "sync_cr"
    /\ rounds' = rounds + 1
    /\ BeginWrite(<<CR>>, "sync_lf")
    /\ UNCHANGED <<data, pairs, recs, rfs, cur, read_buff, rx, tx, err, waits, log,
                   taken, lastFlow, checked, nsent>>
    /\ UNCHANGED <<arrived, got>>
    /\ With
    /\ UNCHANGED rcv
    /\ UNCHANGED nonSenderVars

\* Sender._sync: ser.write(serial.LF)
SyncLF ==
    /\ spc = "sync_lf"
    /\ BeginWrite(<<LF>>, "wait_xon")
    /\ UNCHANGED <<data, pairs, recs, rfs, cur, read_buff, rx, tx, err, rounds, waits,
                   log, taken, lastFlow, checked, nsent>>
    /\ UNCHANGED <<arrived, got>>
    /\ With
    /\ UNCHANGED rcv
    /\ UNCHANGED nonSenderVars

\* wait_for_xon with every byte taken for XON
WaitForXonByte_any_byte ==
    /\ spc = "wait_xon"
    /\ rx # <<>>
    /\ rx' = Tail(rx)
    /\ waits' = Append(waits, Some(Head(rx)))
    /\ spc' = "items"
    /\ UNCHANGED <<data, pairs, recs, rfs, cur, wbuf, widx, wret, xoff, read_buff, tx,
                   err, rounds, log, taken, lastFlow, checked, nsent>>
    /\ UNCHANGED <<arrived, got>>
    /\ With
    /\ UNCHANGED rcv
    /\ UNCHANGED nonSenderVars

\* FlowControlSerial.wait_for_xon: a byte is read within the timeout
WaitForXonByte ==
    /\ spc = "wait_xon"
    /\ rx # <<>>
    /\ rx' = Tail(rx)
    /\ waits' = Append(waits, Some(Head(rx)))
    /\ IF Head(rx) = XON
       THEN spc' = "items" /\ err' = err
       ELSE spc' = "error" /\ err' = Raise("ValueError", "Unexpected", Some(Head(rx)))
    /\ UNCHANGED <<data, pairs, recs, rfs, cur, wbuf, widx, wret, xoff, read_buff, tx,
                   rounds, log, taken, lastFlow, checked, nsent>>
    /\ UNCHANGED <<arrived, got>>
    /\ With
    /\ UNCHANGED rcv
    /\ UNCHANGED nonSenderVars

\* FlowControlSerial.wait_for_xon: no byte within the timeout, _sync loops
WaitForXonTimeout ==
    /\ spc = "wait_xon"
    /\ rx = <<>>
    /\ rounds < MaxRounds
    /\ waits' = Append(waits, None)
    /\ spc' = "sync_cr"
    /\ UNCHANGED <<data, pairs, recs, rfs, cur, wbuf, widx, wret, xoff, read_buff, rx,
                   tx, err, rounds, log, taken, lastFlow, checked, nsent>>
    /\ UNCHANGED <<arrived, got>>
    /\ With
    /\ UNCHANGED rcv
    /\ UNCHANGED nonSenderVars

\* FlowControlSerial.write: "if self._serial.in_waiting or xoff"
WriteCheck ==
    /\ spc = "w_check"
    /\ checked' = TRUE
    /\ spc' = IF rx # <<>> \/ xoff THEN "w_read" ELSE "w_write"
    /\ UNCHANGED <<data, pairs, recs, rfs, cur, wbuf, widx, wret, xoff, read_buff, rx,
                   tx, err, rounds, waits, log, taken, lastFlow, nsent>>
    /\ UNCHANGED <<arrived, got>>
    /\ With
    /\ UNCHANGED rcv
    /\ UNCHANGED nonSenderVars

\* write with XOFF read and not obeyed: the byte is written at once
write_read_xoff_ignored(read, xoff_now, buff, flow) ==
    IF read = XOFF
    THEN [xoff |-> xoff_now, read_buff |-> buff, lastFlow |-> "XOFF", spc |-> "w_write"]
    ELSE IF read = XON
    THEN [xoff |-> xoff_now, read_buff |-> buff, lastFlow |-> "XON", spc |-> "w_write"]
    ELSE [xoff |-> xoff_now, read_buff |-> Append(buff, read), lastFlow |-> flow,
          spc |-> "w_check"]

\* what write does with the byte it read: the values of xoff, _read_buff, the last
\* flow control byte and the statement that follows
write_read(read, xoff_now, buff, flow) ==
    IF read = XOFF
    THEN [xoff |-> TRUE, read_buff |-> buff, lastFlow |-> "XOFF", spc |-> "w_check"]
    ELSE IF read = XON
    THEN [xoff |-> xoff_now, read_buff |-> buff, lastFlow |-> "XON", spc |-> "w_write"]
    ELSE [xoff |-> xoff_now, read_buff |-> Append(buff, read), lastFlow |-> flow,
          spc |-> "w_check"]

\* the locals of write after it read a byte: st is what write_read returned
WriteReadSet(st) ==
    /\ xoff' = st.xoff
    /\ read_buff' = st.read_buff
    /\ lastFlow' = st.lastFlow
    /\ spc' = st.spc

\* FlowControlSerial.write: "read = self._serial.read(size=1)[0]", which blocks until
\* the receiver has sent a byte, and the branches on read
WriteRead ==
    /\ spc = "w_read"
    /\ rx # <<>>
    /\ rx' = Tail(rx)
    /\ WriteReadSet(write_read(Head(rx), xoff, read_buff, lastFlow))
    /\ UNCHANGED <<data, pairs, recs, rfs, cur, wbuf, widx, wret, tx, err, rounds, waits,
                   log, taken, checked, nsent>>
    /\ arrived' = IF Head(rx) \in {XON, XOFF} THEN arrived ELSE Append(arrived, Head(rx))
    /\ got' = got
    /\ With
    /\ UNCHANGED rcv
    /\ UNCHANGED nonSenderVars

\* a frame event of the history
Event(ev, what) == [ev |-> ev, what |-> what]

\* the history after byte idx of a write of n bytes was written
LogWrite(l, kind, idx, n) ==
    IF kind = "" THEN l
    ELSE (IF idx = 1 THEN Append(l, Event("start", kind)) ELSE l)
            \o (IF idx = n THEN <<Event("end", kind)>> ELSE <<>>)

\* FlowControlSerial.write: "self._serial.write([b])" returns 1; the loop goes on with
\* the next byte, or write returns
WriteByte ==
    /\ spc = "w_write"
    /\ tx' = Append(tx, wbuf[widx])
    /\ checked' = FALSE
    /\ log' = LogWrite(log, cur, widx, Len(wbuf))
    /\ IF widx = Len(wbuf)
       THEN spc' = wret /\ UNCHANGED <<widx, xoff>>
       ELSE spc' = "w_check" /\ widx' = widx + 1 /\ xoff' = FALSE
    /\ UNCHANGED <<data, pairs, recs, rfs, cur, wbuf, wret, read_buff, rx, err, rounds,
                   waits, taken, lastFlow, nsent>>
    /\ UNCHANGED <<arrived, got>>
    /\ With
    /\ UNCHANGED rcv
    /\ UNCHANGED nonSenderVars

\* FlowControlSerial.write: "self._serial.write([b])" does not return 1
ShortWrite ==
    /\ spc = "w_write"
    /\ spc' = "error"
    /\ err' = Raise("RuntimeError", "Short write!", None)
    /\ UNCHANGED <<data, pairs, recs, rfs, cur, wbuf, widx, wret, xoff, read_buff, rx,
                   tx, rounds, waits, log, taken, lastFlow, checked, nsent>>
    /\ UNCHANGED <<arrived, got>>
    /\ With
    /\ UNCHANGED rcv
    /\ UNCHANGED nonSenderVars

\* Sender._send_frame: ser.write(frame.bytes())
SendFrame(f, to) ==
    /\ BeginWrite(bytes(f), to)
    /\ cur' = f.kind

\* _send_directory without its _wait_for_ack
SendDirectory_no_ack ==
    /\ spc = "items"
    /\ pairs # <<>>
    /\ SendFrame(Head(pairs).directory, "records")
    /\ recs' = Head(pairs).records
    /\ pairs' = Tail(pairs)
    /\ UNCHANGED <<data, rfs, read_buff, rx, tx, err, rounds, waits, log, taken,
                   lastFlow, checked, nsent>>
    /\ UNCHANGED <<arrived, got>>
    /\ With
    /\ UNCHANGED rcv
    /\ UNCHANGED nonSenderVars

\* send_directory_data: the next item of data.items(), _send_directory writes the
\* Directory frame
SendDirectory ==
    /\ spc = "items"
    /\ pairs # <<>>
    /\ SendFrame(Head(pairs).directory, "ack_dir")
    /\ recs' = Head(pairs).records
    /\ pairs' = Tail(pairs)
    /\ UNCHANGED <<data, rfs, read_buff, rx, tx, err, rounds, waits, log, taken,
                   lastFlow, checked, nsent>>
    /\ UNCHANGED <<arrived, got>>
    /\ With
    /\ UNCHANGED rcv
    /\ UNCHANGED nonSenderVars

\* send_directory_data: after the last item, _send_frame(EndOfTransmission.get())
SendEndOfTransmission ==
    /\ spc = "items"
    /\ pairs = <<>>
    /\ SendFrame(EndOfTransmission_get, "done")
    /\ UNCHANGED <<data, pairs, recs, rfs, read_buff, rx, tx, err, rounds, waits, log,
                   taken, lastFlow, checked, nsent>>
    /\ UNCHANGED <<arrived, got>>
    /\ With
    /\ UNCHANGED rcv
    /\ UNCHANGED nonSenderVars

\* read that takes a byte from the serial port whenever one is waiting there
ser_read_serial_first(buff, q) ==
    IF q # <<>> THEN [value |-> Head(q), read_buff |-> buff, rx |-> Tail(q)]
    ELSE [value |-> Head(buff), read_buff |-> Tail(buff), rx |-> q]

\* FlowControlSerial.read: the first byte of _read_buff if there is one, else a byte
\* read from the serial port: [value, read_buff, rx]
ser_read(buff, q) ==
    IF buff # <<>> THEN [value |-> Head(buff), read_buff |-> Tail(buff), rx |-> q]
    ELSE [value |-> Head(q), read_buff |-> buff, rx |-> Tail(q)]

\* _wait_for_ack with NACK taken for ACK
wait_for_ack_nack_accepted(read) ==
    IF read = ACK \/ read = NACK THEN None
    ELSE Raise("RuntimeError", "Unexpected data", Some(read))

\* Sender._wait_for_ack on the byte read: None when it returns, else what it raises
wait_for_ack(read) ==
    IF read = ACK THEN None
    ELSE IF read = NACK THEN Raise("RuntimeError", "NACK received", None)
    ELSE Raise("RuntimeError", "Unexpected data", Some(read))

\* how the history names a byte taken by _wait_for_ack
AckName(read) == IF read = ACK THEN "ACK" ELSE IF read = NACK THEN "NACK" ELSE "other"

\* the byte r.value was taken by _wait_for_ack, e is what it raises
WaitForAckSet(r, e) ==
    /\ read_buff' = r.read_buff
    /\ rx' = r.rx
    /\ arrived' = IF r.rx = rx THEN arrived ELSE Append(arrived, r.value)
    /\ got' = Append(got, r.value)
    /\ taken' = Some(r.value)
    /\ log' = Append(log, Event("ack", AckName(r.value)))
    /\ err' = e
    /\ spc' = IF IsNone(e) THEN "records" ELSE "error"

\* Sender._wait_for_ack, called by _send_directory and _send_record: ser.read(),
\* which blocks until there is a byte, and the branches on read
WaitForAck ==
    /\ spc \in {"ack_dir", "ack_rec"}
    /\ read_buff # <<>> \/ rx # <<>>
    /\ WaitForAckSet(ser_read(read_buff, rx), wait_for_ack(ser_read(read_buff, rx).value))
    /\ UNCHANGED <<data, pairs, recs, rfs, cur, wbuf, widx, wret, xoff, tx, rounds,
                   waits, lastFlow, checked, nsent>>
    /\ With
    /\ UNCHANGED rcv
    /\ UNCHANGED nonSenderVars

\* _send_record: record.to_frames() returned or raised t
SendRecordSet(t) ==
    IF t.ok
    THEN /\ rfs' = t.frames
         /\ recs' = Tail(recs)
         /\ spc' = "frames"
         /\ err' = err
    ELSE /\ spc' = "error"
         /\ err' = Raise("ValueError", t.err, None)
         /\ UNCHANGED <<rfs, recs>>

\* send_directory_data: the next record of the item, _send_record calls
\* record.to_frames()
SendRecord ==
    /\ spc = "records"
    /\ recs # <<>>
    /\ SendRecordSet(to_frames(Head(recs)))
    /\ UNCHANGED <<data, pairs, cur, wbuf, widx, wret, xoff, read_buff, rx, tx, rounds,
                   waits, log, taken, lastFlow, checked, nsent>>
    /\ UNCHANGED <<arrived, got>>
    /\ With
    /\ UNCHANGED rcv
    /\ UNCHANGED nonSenderVars

\* send_directory_data: the records of the item are exhausted
NextItem ==
    /\ spc = "records"
    /\ recs = <<>>
    /\ spc' = "items"
    /\ UNCHANGED <<data, pairs, recs, rfs, cur, wbuf, widx, wret, xoff, read_buff, rx,
                   tx, err, rounds, waits, log, taken, lastFlow, checked, nsent>>
    /\ UNCHANGED <<arrived, got>>
    /\ With
    /\ UNCHANGED rcv
    /\ UNCHANGED nonSenderVars

\* _send_record with _wait_for_ack inside its loop, after every frame
SendRecordFrame_acked ==
    /\ IF spc = "frames"
       THEN /\ rfs # <<>>
            /\ SendFrame(Head(rfs), "ack_frame")
            /\ rfs' = Tail(rfs)
            /\ UNCHANGED <<read_buff, rx, taken, log, err, arrived, got>>
       ELSE /\ spc = "ack_frame"
            /\ read_buff # <<>> \/ rx # <<>>
            /\ LET r == ser_read(read_buff, rx)
               IN  /\ read_buff' = r.read_buff
                   /\ rx' = r.rx
                   /\ arrived' = IF r.rx = rx THEN arrived ELSE Append(arrived, r.value)
                   /\ got' = Append(got, r.value)
                   /\ taken' = Some(r.value)
                   /\ log' = Append(log, Event("ack", AckName(r.value)))
                   /\ err' = wait_for_ack(r.value)
                   /\ spc' = IF r.value = ACK THEN "frames" ELSE "error"
            /\ UNCHANGED <<rfs, cur, wbuf, widx, wret, xoff>>
    /\ UNCHANGED <<data, pairs, recs, tx, rounds, waits, lastFlow, checked, nsent>>
    /\ With
    /\ UNCHANGED rcv
    /\ UNCHANGED nonSenderVars

\* _send_record: "for frame in record.to_frames(): self._send_frame(ser, frame)"
SendRecordFrame ==
    /\ spc = "frames"
    /\ rfs # <<>>
    /\ SendFrame(Head(rfs), "frames")
    /\ rfs' = Tail(rfs)
    /\ UNCHANGED <<data, pairs, recs, read_buff, rx, tx, err, rounds, waits, log, taken,
                   lastFlow, checked, nsent>>
    /\ UNCHANGED <<arrived, got>>
    /\ With
    /\ UNCHANGED rcv
    /\ UNCHANGED nonSenderVars

\* _send_record without the EndOfRecord frame
SendEndOfRecord_missing ==
    /\ spc = "frames"
    /\ rfs = <<>>
    /\ spc' = "ack_rec"
    /\ UNCHANGED <<data, pairs, recs, rfs, cur, wbuf, widx, wret, xoff, read_buff, rx, tx,
                   err, rounds, waits, log, taken, lastFlow, checked, nsent>>
    /\ UNCHANGED <<arrived, got>>
    /\ With
    /\ UNCHANGED rcv
    /\ UNCHANGED nonSenderVars

\* _send_record: after the loop, _send_frame(EndOfRecord.get())
SendEndOfRecord ==
    /\ spc = "frames"
    /\ rfs = <<>>
    /\ SendFrame(EndOfRecord_get, "ack_rec")
    /\ UNCHANGED <<data, pairs, recs, rfs, read_buff, rx, tx, err, rounds, waits, log,
                   taken, lastFlow, checked, nsent>>
    /\ UNCHANGED <<arrived, got>>
    /\ With
    /\ UNCHANGED rcv
    /\ UNCHANGED nonSenderVars

SenderNext ==
    \/ Receive
    \/ SyncCR
    \/ SyncLF
    \/ WaitForXonByte
    \/ WaitForXonTimeout
    \/ WriteCheck
    \/ WriteRead
    \/ WriteByte
    \/ ShortWrite
    \/ SendDirectory
    \/ SendEndOfTransmission
    \/ WaitForAck
    \/ SendRecord
    \/ NextItem
    \/ SendRecordFrame
    \/ SendEndOfRecord

SpecSender == SenderInit /\ [][SenderNext]_vars

(***************************************************************************)
(* Decoder: decode() is called with the items of a capture, a sender byte  *)
(* of the script or a receiver byte or an item that is no DATA, and        *)
(* reset() at any time                                                     *)
(***************************************************************************)

\* the number of calls of reset() in a capture
MaxResets == 1

\* the bytes of a frame as items of a script
Sent(bs) == [i \in 1..Len(bs) |-> {bs[i]}]

\* a sender byte that is neither CR nor ":", one that is not LF, and a byte in a
\* frame that may be no hexadecimal digit
NotSync1OrStart == {10, 32, 48, 71}

NotSync2 == {13, 58, 71}

InFrame == {13, 32, 48, 58, 71}

\* a frame as FrameBuilder delivers it, its checksum being whatever was sent
Raw(length, frame_type, address, bs, checksum) ==
    from_data(length, frame_type, address, bs, checksum)

\* the frame of Text.from_text("a")
TextA == Raw(1, 128, 0, <<97>>, calculate_checksum(1, 128, 0, <<97>>))

\* the frame of ":03F4860000010280", which no class matches
Unrecognised == Raw(3, 244, 134, <<0, 1, 2>>, 128)

\* the captures, what the sender sent: those that are decoded with either line as
\* the sender's, and all of them
ScriptsEitherLine ==
    {<<{13}, {10}>> \o Sent(bytes(Unrecognised)),
     Sent(bytes(TextA)) \o Sent(bytes(EndOfRecord_get)),
     Sent(bytes(Raw(0, 0, 256, <<>>, 0)))}

RECURSIVE RecordsFrames(_)
\* the frames of the records rs: those of to_frames() and one EndOfRecord for each
RecordsFrames(rs) ==
    IF rs = <<>> THEN <<>>
    ELSE to_frames(rs[1]).frames \o <<EndOfRecord_get>> \o RecordsFrames(Tail(rs))

RECURSIVE SessionFrames(_)
\* the frames of a session for the items d, in input order
SessionFrames(d) ==
    IF d = <<>> THEN <<EndOfTransmission_get>>
    ELSE <<d[1].directory>> \o RecordsFrames(d[1].records) \o SessionFrames(Tail(d))

FramesBytes(fs) == Concat([i \in 1..Len(fs) |-> bytes(fs[i])])

\* the dictionaries of the sessions that are decoded: no item, a directory with two
\* records, a directory with no record before one with a record, and a ToDo with a
\* deadline
SessionInputs ==
    {<<>>,
     <<Item(get("MemoDirectory"), <<Memo(<<97>>, Some("BLUE")), Memo(<<98>>, None)>>)>>,
     <<Item(get("ReminderDirectory"), <<>>),
       Item(get("MemoDirectory"), <<Memo(<<97>>, None)>>)>>,
     <<Item(get("ToDoDirectory"),
            <<ToDo(Some([year |-> 2021, month |-> 2, day |-> 25]), None, None, None,
                   None, <<97>>, None)>>)>>}

\* what a Sender writes in an error-free session for the items d, with one round of
\* the handshake
Session(d) == <<{CR}, {LF}>> \o Sent(FramesBytes(SessionFrames(d)))

\* a session of one Memo
OneMemo == <<Item(get("MemoDirectory"), <<Memo(<<97>>, None)>>)>>

\* the captures of sessions: each of one session, and one of two sessions
SessionLists == {<<d>> : d \in SessionInputs} \cup {<<OneMemo, OneMemo>>}

\* what is written in the sessions ds, one after the other
SessionsBytes(ds) == Concat([i \in 1..Len(ds) |-> Session(ds[i])])

SessionScripts == {SessionsBytes(ds) : ds \in SessionLists}

Scripts ==
    ScriptsEitherLine \cup
    {Sent(bytes(get("MemoDirectory"))) \o Sent(bytes(TextA))
         \o Sent(bytes(EndOfRecord_get)),
     Sent(bytes(get("TelephoneDirectory"))) \o Sent(bytes(EndOfRecord_get)),
     Sent(bytes(get("MemoDirectory"))) \o Sent(bytes(Raw(1, 128, 0, <<97>>, 0))),
     <<NotSync1OrStart, {13}, NotSync2, NotSync1OrStart, {13}, {10}>>
         \o Sent(bytes(get("MemoDirectory"))) \o <<{58}, {48}, InFrame>>
         \o Sent(SubSeq(bytes(EndOfRecord_get), 4, 11)),
     Sent(bytes(get("Directory"))) \o Sent(bytes(get("MemoDirectory")))
         \o Sent(bytes(EndOfRecord_get)),
     Sent(bytes(get("MemoDirectory"))) \o Sent(bytes(Raw(1, 128, 0, <<0>>, 127)))}

\* no decode() call has run since the decoder was constructed or reset
NoItem == [ptype |-> "", rxtx |-> 0, datavalue |-> 0]

DecoderInit ==
    /\ dec = Decoder_init
    /\ twin = Decoder_init
    /\ options \in {"TX", "RX"}
    /\ capture \in (IF options = "TX" THEN Scripts ELSE ScriptsEitherLine)
    /\ script = capture
    /\ dn = 0
    /\ uart = NoItem
    /\ nreset = 0
    /\ CodecIdle
    /\ RecordIdle
    /\ SenderIdle
    /\ TextIdle

\* the rxtx of the items of the sender's line and of the receiver's
SenderLine == IF options = "RX" THEN 0 ELSE 1

ReceiverLine == 1 - SenderLine

\* decode(startsample, endsample, item) on a decoder
Call(self, startsample, endsample, item) ==
    decode([self EXCEPT !.out = <<>>], options, startsample, endsample, item)

\* the item is delivered: decode(startsample, endsample, item) on the decoder and on
\* its twin, the samples being dn and dn + 1
Deliver(item) ==
    /\ uart' = item
    /\ \E returned \in {[d \in {dec, twin} |-> Call(d, dn, dn + 1, item)]} :
           /\ dec' = returned[dec]
           /\ twin' = returned[twin]

\* the UART decoder delivers the next byte of the sender
DecodeSenderByte ==
    /\ dec.exc = None
    /\ twin.exc = None
    /\ script # <<>>
    /\ \E b \in Head(script) : Deliver(UartItem("DATA", SenderLine, b))
    /\ script' = Tail(script)
    /\ dn' = dn + 2
    /\ UNCHANGED <<options, capture, nreset>>
    /\ UNCHANGED nonDecoderVars

\* the UART decoder delivers a byte of the receiver, sent while the sender's next
\* byte is on its line
DecodeReceiverByte ==
    /\ dec.exc = None
    /\ twin.exc = None
    /\ \E b \in ReceiverBytes : Deliver(UartItem("DATA", ReceiverLine, b))
    /\ UNCHANGED <<options, capture, script, dn, nreset>>
    /\ UNCHANGED nonDecoderVars

\* the UART decoder delivers an item that is no DATA
DecodeOtherItem ==
    /\ dec.exc = None
    /\ twin.exc = None
    /\ Deliver(UartItem("STARTBIT", SenderLine, 0))
    /\ UNCHANGED <<options, capture, script, dn, nreset>>
    /\ UNCHANGED nonDecoderVars

\* reset() is called
Reset ==
    /\ dec.exc = None
    /\ twin.exc = None
    /\ nreset < MaxResets
    /\ dec' = [reset(dec) EXCEPT !.out = <<>>, !.anns = <<>>]
    /\ twin' = Decoder_init
    /\ uart' = NoItem
    /\ nreset' = nreset + 1
    /\ UNCHANGED <<options, capture, script, dn>>
    /\ UNCHANGED nonDecoderVars

DecoderNext ==
    \/ DecodeSenderByte
    \/ DecodeReceiverByte
    \/ DecodeOtherItem
    \/ Reset

SpecDecoder == DecoderInit /\ [][DecoderNext]_vars

(***************************************************************************)
(* Sessions: a decoder whose "sender" option is TX is given, byte by byte, *)
(* what a Sender writes on the TX line in an error-free session            *)
(***************************************************************************)

SessionInit ==
    /\ dec = Decoder_init
    /\ twin = Decoder_init
    /\ options = "TX"
    /\ capture \in SessionScripts
    /\ script = capture
    /\ dn = 0
    /\ uart = NoItem
    /\ nreset = 0
    /\ CodecIdle
    /\ RecordIdle
    /\ SenderIdle
    /\ TextIdle

SpecSession == SessionInit /\ [][DecodeSenderByte]_vars

(***************************************************************************)
(* Claims about the frame codec (under SpecCodec)                          *)
(***************************************************************************)

\* C1: for every frame F made by a builder constructor, feeding the decoded
\* hexadecimal pairs of F.bytes() to a fresh FrameBuilder yields, on the last byte, a
\* frame with the length, type, address, data and checksum of F and of the kind of F.
C1_SerializationRoundTrip ==
    (built /\ cpc = "fed") =>
        /\ ret.tag = "Checksum"
        /\ ~IsNone(ret.frame)
        /\ FrameEq(Val(ret.frame), frame)

\* the value of an upper-case hexadecimal digit, -1 for any other character
UpperHexValue(c) ==
    IF c \in 48..57 THEN c - 48 ELSE IF c \in 65..70 THEN c - 55 ELSE 0 - 1

\* the value of the k-th pair of digits after the ':'
PairValue(w, k) == UpperHexValue(w[2 * k]) * 16 + UpperHexValue(w[2 * k + 1])

\* ":03F4860000010280"
S1Bytes == <<58, 48, 51, 70, 52, 56, 54, 48, 48, 48, 48, 48, 49, 48, 50, 56, 48>>

S1Frame == MkFrame("Frame", 3, 244, 134, <<0, 1, 2>>, 128)

\* C2: Frame.bytes() is ':' followed by two upper-case hexadecimal digits for each of
\* length, type, address low byte, address high byte, each data byte in order and
\* the checksum: 1 + 2 * (5 + |data|) bytes; the frame of scenario S1 gives
\* ":03F4860000010280".
C2_BytesFormat ==
    cpc # "built" =>
        /\ Len(wire) = 1 + 2 * (5 + Len(frame.data))
        /\ wire[1] = 58
        /\ \A i \in 2..Len(wire) : wire[i] \in (48..57) \cup (65..70)
        /\ PairValue(wire, 1) = frame.length
        /\ PairValue(wire, 2) = frame.frame_type
        /\ PairValue(wire, 3) = frame.address % 256
        /\ PairValue(wire, 4) = frame.address \div 256
        /\ \A j \in 1..Len(frame.data) : PairValue(wire, 4 + j) = frame.data[j]
        /\ PairValue(wire, 5 + Len(frame.data)) = frame.checksum
        /\ frame = S1Frame => wire = S1Bytes

C2_Witness == cpc = "feeding" /\ frame = S1Frame /\ wire = S1Bytes

\* length + type + address high byte + address low byte + sum of data
FieldSum(f) ==
    f.length + f.frame_type + (f.address \div 256) + (f.address % 256) + Sum(f.data)

\* C3: calculate_checksum is the 8-bit two's complement of length + type + address
\* high byte + address low byte + sum of data (that sum plus the checksum is 0 modulo
\* 256; S1 gives 0x80); is_checksum_valid() is true exactly when the stored checksum
\* is that value, and is true for every frame of a builder constructor.
C3_Checksum ==
    LET c == calculate_checksum(frame.length, frame.frame_type, frame.address,
                                frame.data)
    IN  /\ c \in 0..255
        /\ (FieldSum(frame) + c) % 256 = 0
        /\ (frame.length = 3 /\ frame.frame_type = 244 /\ frame.address = 134
              /\ frame.data = <<0, 1, 2>>) => c = 128
        /\ ~IsNone(valid) =>
              /\ Val(valid) <=> (FieldSum(frame) + frame.checksum) % 256 = 0
              /\ built => Val(valid)

C3_Witness ==
    /\ cpc = "verified"
    /\ built
    /\ frame.kind = "DayColorHighlight"
    /\ valid = Some(TRUE)
    /\ frame.checksum \notin {0, 128}

(***************************************************************************)
(* Claims about the records (under SpecRecord)                             *)
(***************************************************************************)

\* C4: for every record R of one of the eight kinds whose invariants hold,
\* from_frames of the kind of R, applied to R.to_frames(), returns a record equal
\* to R.
C4_RecordRoundTrip ==
    (rpc = "parsed" /\ RecordInvariant(rec)) => (rout.ok /\ rout.rec = rec)

(***************************************************************************)
(* Claims about the sender (under SpecSender)                              *)
(***************************************************************************)

\* what was written after the CR and LF of the rounds of the handshake
AfterHandshake == SubSeq(tx, 2 * rounds + 1, Len(tx))

\* C5: when send_directory_data returns normally, the bytes written after the
\* handshake are those of: for each item in input order its Directory frame, then
\* for each record the frames of to_frames() and one EndOfRecord frame, and after
\* the last item one EndOfTransmission frame; after that the sender writes nothing
\* and reads nothing.
C5_FrameOrder ==
    /\ [](spc = "done" => AfterHandshake = FramesBytes(SessionFrames(data)))
    /\ [][spc = "done" => UNCHANGED <<spc, tx, rx, read_buff, taken, log>>]_vars

\* a session of two items, one with a record, has ended normally
C5_Witness == spc = "done" /\ Len(data) = 2 /\ Len(data[2].records) = 1

HandshakeDone == waits # <<>> /\ waits[Len(waits)] = Some(XON)

\* C6: every wait of the handshake but the last timed out; each round writes CR and
\* LF and then waits; the handshake is over when a wait reads a byte: with XON it
\* completes, with any other byte the session ends with ValueError carrying the byte;
\* after a timeout another round starts; until the handshake has completed only CR
\* and LF are written, and no frame is started.
C6_Handshake ==
    /\ \A i \in 1..(Len(waits) - 1) : waits[i] = None
    /\ rounds \in {Len(waits), Len(waits) + 1}
    /\ spc = "wait_xon" => (Len(tx) = 2 * rounds /\ Len(waits) = rounds - 1)
    /\ (waits # <<>> /\ waits[Len(waits)] = None)
           => (rounds = Len(waits) + 1 \/ spc = "sync_cr")
    /\ (waits # <<>> /\ waits[Len(waits)] \notin {None, Some(XON)})
           => (spc = "error" /\ rounds = Len(waits)
               /\ err = Raise("ValueError", "Unexpected", waits[Len(waits)]))
    /\ HandshakeDone => (rounds = Len(waits) /\ Len(tx) >= 2 * rounds)
    /\ ~HandshakeDone
           => (/\ log = <<>>
               /\ cur = ""
               /\ \A i \in 1..Len(tx) : tx[i] = IF i % 2 = 1 THEN CR ELSE LF)
    /\ (spc \notin {"sync_cr", "sync_lf", "wait_xon", "w_check", "w_read", "w_write",
                    "error"})
           => HandshakeDone

\* the handshake has completed in its second round, after a timeout
C6_Witness == waits = <<None, Some(XON)>> /\ spc = "items" /\ tx = <<CR, LF, CR, LF>>


\* the kinds of the frames after which _wait_for_ack is called
AckedKinds == DirectoryClasses \cup {"EndOfRecord"}

RECURSIVE CountRecords(_)
CountRecords(d) == IF d = <<>> THEN 0 ELSE Len(d[1].records) + CountRecords(Tail(d))

\* the number of bytes _wait_for_ack has taken
AckCount == Cardinality({i \in 1..Len(log) : log[i].ev = "ack"})

\* the number of Directory and EndOfRecord frames written to their last byte
AckedFrameCount ==
    Cardinality({i \in 1..Len(log) : log[i].ev = "end" /\ log[i].what \in AckedKinds})

\* C8: one byte is taken by _wait_for_ack for each Directory frame and each
\* EndOfRecord frame written, after its last byte; a frame is started after such a
\* byte only if the byte is ACK, and two bytes are never taken in a row; when the
\* session ends normally the number of bytes taken is the number of directories plus
\* the number of records.
C8_OneAckPerDirectoryAndRecord ==
    /\ AckCount \in {AckedFrameCount, AckedFrameCount - 1}
    /\ AckCount = AckedFrameCount - 1 => log[Len(log)].ev = "end"
    /\ \A i \in 1..(Len(log) - 1) :
           log[i].ev = "ack" => (log[i].what = "ACK" /\ log[i + 1].ev = "start")
    /\ \A i \in 1..(Len(log) - 1) :
           (log[i + 1].ev = "start" /\ i > 0)
               => \/ log[i].ev = "ack" /\ log[i].what = "ACK"
                  \/ log[i].ev = "end" /\ log[i].what \notin AckedKinds
    /\ spc = "done" => AckCount = Len(data) + CountRecords(data)

\* a session of two directories and one record has ended normally with three bytes
\* taken
C8_Witness == spc = "done" /\ AckCount = 3 /\ CountRecords(data) = 1

\* C9: when the byte _wait_for_ack takes is NACK the session ends with the error
\* "NACK received", when it is any other byte than ACK with the error "Unexpected
\* data" carrying the byte, and when the serial port does not accept a byte with the
\* error "Short write!"; once the session has ended with an error nothing more is
\* written, and no EndOfTransmission frame has been written to its last byte.
C9_FailStop ==
    /\ [](/\ taken = Some(NACK)
              => (spc = "error" /\ err = Raise("RuntimeError", "NACK received", None))
          /\ (taken # None /\ taken \notin {Some(ACK), Some(NACK)})
              => (spc = "error" /\ err = Raise("RuntimeError", "Unexpected data", taken))
          /\ spc = "error"
              => (err # None
                  /\ \A i \in 1..Len(log) : log[i] # Event("end", "EndOfTransmission")))
    /\ [][spc = "error" => UNCHANGED <<spc, tx, err>>]_vars
    /\ [][(spc = "w_write" /\ spc' # spc /\ tx' = tx)
              => (spc' = "error" /\ err' = Raise("RuntimeError", "Short write!", None))]_vars

\* the session has ended on the byte "!" taken after the Directory frame
C9_Witness ==
    /\ spc = "error"
    /\ err = Raise("RuntimeError", "Unexpected data", Some(33))
    /\ log = <<Event("start", "MemoDirectory"), Event("end", "MemoDirectory"),
               Event("ack", "other")>>

\* C10: a byte is written only if in_waiting was evaluated since the byte before it
\* was written, and only if the last flow control byte that write read is not XOFF.
C10_FlowControlPause == [][tx' # tx => (checked /\ lastFlow # "XOFF")]_vars

\* the last byte of a Directory frame was written after write had read XOFF and then
\* XON while it was about to write that byte
C10_Witness == spc = "ack_dir" /\ xoff /\ lastFlow = "XON"

\* C11: after the handshake an XOFF or an XON sent by the receiver only pauses
\* writing: the session never ends with an error that one of these two bytes raised
\* where an acknowledgement was awaited.
C11_XoffXonOnlyPause ==
    (HandshakeDone /\ spc = "error")
        => (taken \notin {Some(XOFF), Some(XON)}
            /\ err \notin {Raise("RuntimeError", "Unexpected data", Some(XOFF)),
                           Raise("RuntimeError", "Unexpected data", Some(XON))})

(***************************************************************************)
(* Claims about the decoder (under SpecDecoder)                            *)
(***************************************************************************)

\* C12: the decoder never stops on malformed input: whatever bytes the sender and
\* the receiver put on the lines, no call of decode() ends with an exception.
C12_DecodeNeverFails == dec.exc = None

\* the annotations of the frames the sender sub-machine has completed since the
\* decoder was constructed or reset: each carries its frame and the frame's samples
FrameAnns(self) ==
    SelectSeq(self.anns, LAMBDA a : a.name = "frame-type-" \/ a.text.label = "Unknown ")

\* the frame of a frame annotation
FrameOf(a) == a.text.frames[1]

\* the position in fs of the last Directory or EndOfRecord frame before its last
\* frame, 0 when there is none
LastBoundary(fs) ==
    LET S == {i \in 1..(Len(fs) - 1) :
                  IsInstance(FrameOf(fs[i]), "Directory")
                      \/ FrameOf(fs[i]).kind = "EndOfRecord"}
    IN IF S = {} THEN 0 ELSE CHOOSE i \in S : \A j \in S : j <= i

\* the frame annotations between that frame and the last frame of fs
Group(fs) == SubSeq(fs, LastBoundary(fs) + 1, Len(fs) - 1)

\* the kind of the last Directory frame of fs, None when it has none
RememberedDirectory(fs) ==
    LET S == {i \in 1..Len(fs) : IsInstance(FrameOf(fs[i]), "Directory")}
    IN IF S = {} THEN None ELSE Some(FrameOf(fs[CHOOSE i \in S : \A j \in S : j <= i]).kind)

\* a is the annotation of a record or of an unknown record
IsRecordAnn(a) == a.name = "sender-record-" \/ a.text.label = "Unknown Record: "

\* the decode() call that has just run completed an EndOfRecord frame
EndOfRecordCompleted(self) ==
    \E i \in 1..Len(self.out) :
        self.out[i].name = "frame-type-" /\ self.out[i].of = "EndOfRecord"

\* a is the one annotation the claim wants at the EndOfRecord that ends fs
RecordAnnOf(a, fs, frames, directory) ==
    /\ IsRecordAnn(a)
    /\ a.startsample = (IF frames = <<>> THEN fs[Len(fs)] ELSE fs[LastBoundary(fs) + 1]).startsample
    /\ a.endsample = fs[Len(fs)].endsample
    /\ IF directory # None /\ Val(directory) \in RecordDirectories
       THEN /\ a.name = "sender-record-"
            /\ a.of = DIRECTORY_TO_RECORD(Val(directory))
            /\ from_frames(a.of, frames).ok
            /\ a.text.record = Some(from_frames(a.of, frames).rec)
       ELSE /\ a.text.label = "Unknown Record: "
            /\ a.text.frames = frames

\* C13: a decode() call that completes an EndOfRecord frame puts exactly one record
\* annotation (a record built by from_frames when the last Directory frame's kind has
\* a record type, otherwise an unknown-record warning), built from exactly the frames
\* completed since the preceding Directory or EndOfRecord frame, in order, spanning
\* from the first of them to the end of the EndOfRecord, and leaves the aggregator
\* waiting for a Directory or a frame.
C13_RecordAggregation ==
    EndOfRecordCompleted(dec) =>
        /\ Cardinality({i \in 1..Len(dec.out) : IsRecordAnn(dec.out[i])}) = 1
        /\ RecordAnnOf(dec.out[Len(dec.out)], FrameAnns(dec),
                       [i \in 1..Len(Group(FrameAnns(dec))) |->
                            FrameOf(Group(FrameAnns(dec))[i])],
                       RememberedDirectory(FrameAnns(dec)))
        /\ dec.record_state = "directory_or_record"

\* C14: when an EndOfRecord frame completes and no Directory frame has completed
\* since the decoder was constructed or reset, the call puts an unknown-record
\* warning and does not fail.
C14_NoDirectoryIsUnknownRecord ==
    (EndOfRecordCompleted(dec) /\ RememberedDirectory(FrameAnns(dec)) = None)
        => /\ dec.exc = None
           /\ dec.out[Len(dec.out)].text.label = "Unknown Record: "

\* the annotations with the label l that the decode() call that has just run put
OutLabelled(self, l) == SelectSeq(self.out, LAMBDA a : a.text.label = l)

\* the annotations of completed frames that the decode() call that has just run put
OutFrames(self) ==
    SelectSeq(self.out, LAMBDA a : a.name = "frame-type-" \/ a.text.label = "Unknown ")

\* the decode() call that has just run completed a frame whose checksum is wrong or
\* whose kind is not recognised
BadFrameCompleted(self) ==
    /\ Len(OutFrames(self)) = 1
    /\ \/ ~is_checksum_valid(FrameOf(OutFrames(self)[1]))
       \/ FrameOf(OutFrames(self)[1]).kind = "Frame"

\* the aggregator was given the frame f: a Directory frame is remembered, an
\* EndOfRecord closes the record, any other frame is the last of the buffer
PassedToAggregator(self, f) ==
    IF IsInstance(f, "Directory") \/ f.kind = "EndOfRecord"
    THEN self.record_state \in {"start", "frames", "directory_or_record"}
    ELSE /\ self.record_state = "frames"
         /\ self.record_frames # <<>>
         /\ self.record_frames[Len(self.record_frames)] = f

\* C15: a decode() call that completes a frame with a wrong checksum puts one 'Bad
\* Checksum' warning over the span of the checksum byte; one that completes a frame
\* of no recognised kind puts one 'Unknown' warning over the span of the frame and no
\* frame-variant annotation; in both cases the aggregator has been given the frame,
\* the call does not fail, and the sender sub-machine is back in
\* _decode_sender_sync_or_frame with a new FrameBuilder.
C15_BadChecksumAndUnknownFrame ==
    BadFrameCompleted(dec) =>
        /\ ~is_checksum_valid(FrameOf(OutFrames(dec)[1]))
               => /\ Len(OutLabelled(dec, "Bad Checksum")) = 1
                  /\ Len(OutLabelled(dec, "Checksum")) = 1
                  /\ OutLabelled(dec, "Bad Checksum")[1].name = "sender-warning"
                  /\ OutLabelled(dec, "Bad Checksum")[1].startsample
                         = OutLabelled(dec, "Checksum")[1].startsample
                  /\ OutLabelled(dec, "Bad Checksum")[1].endsample
                         = OutLabelled(dec, "Checksum")[1].endsample
        /\ FrameOf(OutFrames(dec)[1]).kind = "Frame"
               => /\ OutFrames(dec)[1].name = "sender-warning"
                  /\ OutFrames(dec)[1].startsample = Val(dec.frame_startsample)
                  /\ OutFrames(dec)[1].endsample = OutLabelled(dec, "Checksum")[1].endsample
        /\ dec.exc = None
        /\ PassedToAggregator(dec, FrameOf(OutFrames(dec)[1]))
        /\ dec.sender_decode_function = "_decode_sender_sync_or_frame"
        /\ dec.frame_builder = FrameBuilder_init

\* the sender sub-machine takes the byte b as one that recovers in the sync states
SyncJunk(self, b) ==
    \/ self.sender_decode_function = "_decode_sender_sync_or_frame" /\ b \notin {13, 58}
    \/ self.sender_decode_function = "_decode_sender_sync" /\ b # 10

\* the step is a decode() call with a DATA item of the line rxtx
DataStep(rxtx) ==
    /\ nreset' = nreset
    /\ uart'.ptype = "DATA"
    /\ uart'.rxtx = rxtx

\* C16: a sender byte that is neither CR nor ':' while the sender sub-machine awaits
\* the first sync byte or a frame start, and a sender byte that is not LF while it
\* awaits the second sync byte, each put exactly one sender-warning over the byte,
\* are consumed, and leave the sub-machine awaiting the first sync byte or a frame
\* start with the FrameBuilder, the hex accumulator and the record aggregator as they
\* were.
C16_SyncRecovery ==
    [][(DataStep(SenderLine) /\ SyncJunk(dec, uart'.datavalue))
           => /\ script' = Tail(script)
              /\ dec'.out = <<Ann(dn, dn + 1, "sender-warning", "", Label("?"))>>
              /\ dec'.anns = Append(dec.anns, dec'.out[1])
              /\ dec'.exc = None
              /\ dec'.sender_decode_function = "_decode_sender_sync_or_frame"
              /\ dec'.frame_builder = dec.frame_builder
              /\ dec'.hex_high_value = dec.hex_high_value
              /\ dec'.record_state = dec.record_state
              /\ dec'.record_frames = dec.record_frames
              /\ dec'.record_directory_type = dec.record_directory_type]_vars

\* a byte that is no CR was warned about, CR was taken as the first sync byte, and
\* the byte after it, no LF, was warned about and the sub-machine awaits CR or ':'
C16_Witness ==
    /\ nreset = 0
    /\ Len(dec.anns) = 3
    /\ dec.anns[1] = Ann(0, 1, "sender-warning", "", Label("?"))
    /\ dec.anns[2] = Ann(2, 3, "sync", "", Label("Sync 1/2"))
    /\ dec.anns[3] = Ann(4, 5, "sender-warning", "", Label("?"))
    /\ dec.out = <<dec.anns[3]>>
    /\ dec.sender_decode_function = "_decode_sender_sync_or_frame"

\* C17: after reset() the decoder puts for every following item the same annotations
\* as a newly constructed decoder given the same items, and fails where it fails; a
\* second reset() changes nothing that the first one left.
C17_ResetComplete ==
    /\ nreset > 0 => (dec.anns = twin.anns /\ dec.out = twin.out /\ dec.exc = twin.exc)
    /\ reset(reset(dec)) = reset(dec)

\* the name of the annotation of a receiver byte, by its value
ReceiverName(b) ==
    CASE b = XON -> "receiver-xon"
      [] b = XOFF -> "receiver-xoff"
      [] b = ACK -> "receiver-ack"
      [] b = NACK -> "receiver-nack"
      [] OTHER -> "receiver-warning"

\* all of a decoder but what its last decode() call put
SenderSide(self) == [self EXCEPT !.out = <<>>]

\* a is an annotation of the receiver
IsReceiverAnn(a) ==
    a.name \in {"receiver-xon", "receiver-xoff", "receiver-ack", "receiver-nack",
                "receiver-warning"}

\* C18: a DATA item of the receiver's line puts exactly one annotation, of the name
\* its value alone decides, over its samples, and leaves the sender sub-machine, the
\* hex accumulator, the FrameBuilder, the record aggregator and the sender's
\* annotations as they were; a DATA item of the sender's line puts no receiver
\* annotation; an item that is no DATA puts nothing and changes nothing.
C18_ReceiverStateless ==
    [][/\ DataStep(ReceiverLine)
              => /\ Len(dec'.out) = 1
                 /\ dec'.out[1].name = ReceiverName(uart'.datavalue)
                 /\ dec'.out[1].startsample = dn
                 /\ dec'.out[1].endsample = dn + 1
                 /\ SenderSide(dec') = SenderSide(dec)
       /\ DataStep(SenderLine)
              => \A i \in 1..Len(dec'.out) : ~IsReceiverAnn(dec'.out[i])
       /\ (nreset' = nreset /\ uart'.ptype # "DATA")
              => /\ dec'.out = <<>>
                 /\ SenderSide(dec') = SenderSide(dec)]_vars

\* the receiver's ACK was annotated between the two hex digits of a byte of a frame
\* of the sender
C18_Witness ==
    /\ Len(dec.out) = 1
    /\ dec.out[1].name = "receiver-ack"
    /\ dec.sender_decode_function = "_decode_sender_frame"
    /\ dec.hex_high_value # None
    /\ dec.frame_builder.length # None

\* scenario S5: CR, LF and the bytes of the frame ':03F4860000010280'
S5Capture == <<{13}, {10}>> \o Sent(bytes(Unrecognised))

\* the decoder was constructed, not reset, and has been given all of scenario S5
S5Decoded == capture = S5Capture /\ script = <<>> /\ nreset = 0 /\ dec.exc = None

\* the piece of a frame that add_data names tag, of the value value
Piece(startsample, endsample, tag, value) ==
    Ann(startsample, endsample, "frame-header", "", AnnText(tag, value, <<>>, None))

\* the annotations of S5 up to the last header piece
S5Head ==
    <<Ann(0, 1, "sync", "", Label("Sync 1/2")),
      Ann(2, 3, "sync", "", Label("Sync 2/2")),
      Ann(4, 5, "frame-start", "", Label("Frame Start")),
      Piece(6, 9, "Length", 3),
      Piece(10, 13, "Type", 244),
      Piece(14, 17, "Address Low", 134),
      Piece(18, 21, "Address High", 0)>>

\* C19 as stated: for scenario S5 a fresh decoder puts, in this order, 'Sync 1/2',
\* 'Sync 2/2', a frame start, the four header pieces, one data chunk, one checksum
\* piece and one frame-variant annotation that spans from the ':' to the last digit.
C19_ScenarioS5 ==
    S5Decoded =>
        /\ Len(dec.anns) = 10
        /\ SubSeq(dec.anns, 1, 7) = S5Head
        /\ dec.anns[8].text.label = "Data"
        /\ dec.anns[9] = Piece(34, 37, "Checksum", 128)
        /\ dec.anns[10].name = "frame-type-"
        /\ dec.anns[10].startsample = 4
        /\ dec.anns[10].endsample = 37

\* C19 amended: for scenario S5 a fresh decoder puts, in this order, 'Sync 1/2',
\* 'Sync 2/2', a frame start, the four header pieces, three data pieces (one for each
\* data byte), one checksum piece and, the frame being of no recognised kind, one
\* 'Unknown' sender-warning that spans from the ':' to the last digit.
C19_ScenarioS5Unknown ==
    S5Decoded =>
        dec.anns = S5Head \o
            <<Piece(22, 25, "Data", 0),
              Piece(26, 29, "Data", 1),
              Piece(30, 33, "Data", 2),
              Piece(34, 37, "Checksum", 128),
              Ann(4, 37, "sender-warning", "",
                  AnnText("Unknown ", 0, <<Unrecognised>>, None))>>

\* scenario S5 was decoded to the end with the ACK of the receiver as the last item
C19_Witness == S5Decoded /\ Len(dec.anns) = 12 /\ uart.datavalue = ACK

(***************************************************************************)
(* Frame recognition (under SpecCodec)                                     *)
(***************************************************************************)

\* the positions in SUBCLASSES of the classes whose match holds for the frame f
Matching(f) ==
    {i \in 1..Len(SUBCLASSES) :
         match(SUBCLASSES[i], f.length, f.frame_type, f.address, f.data)}

\* from_data with SUBCLASSES scanned from the first class to the last
RECURSIVE from_data_forward(_, _, _, _, _, _)
from_data_forward(i, length, frame_type, address, payload, checksum) ==
    IF i > Len(SUBCLASSES) THEN MkFrame("Frame", length, frame_type, address, payload, checksum)
    ELSE IF match(SUBCLASSES[i], length, frame_type, address, payload)
         THEN MkFrame(SUBCLASSES[i], length, frame_type, address, payload, checksum)
         ELSE from_data_forward(i + 1, length, frame_type, address, payload, checksum)

\* what the claim says of a frame f that Frame.from_data returned
Unambiguous(f) ==
    /\ Cardinality(Matching(f)) <= 1
    /\ \A i \in Matching(f) : f.kind = SUBCLASSES[i]
    /\ Matching(f) = {} => f.kind = "Frame"
    /\ f.kind \in DirectoryClasses => f.data = DATA(f.kind)
    /\ f.kind = "Directory" => f.data = <<0, 0>>
    /\ \A cls \in DirectoryClasses :
           (f.length = 2 /\ f.frame_type = 0 /\ f.address = 512 /\ f.data = DATA(cls))
               => f.kind = cls
    /\ f = from_data_forward(1, f.length, f.frame_type, f.address, f.data, f.checksum)

\* C20: for every frame a FrameBuilder delivers, at most one class's match holds for
\* its length, type, address and data; the frame is of that class (the specialised
\* Directory class of its payload, the generic Directory only for data [0, 0]), or a
\* generic Frame when no match holds; scanning the classes in the other order
\* returns the same.
C20_UnambiguousRecognition == ret.frame # None => Unambiguous(Val(ret.frame))

\* a FrameBuilder delivered a frame of type 0xE0, the type of Time and of
\* StartEndTime, made with the Frame constructor, and it is a StartEndTime
C20_Witness ==
    /\ ~built
    /\ ret.frame # None
    /\ Val(ret.frame).frame_type = 224
    /\ Val(ret.frame).kind = "StartEndTime"

(***************************************************************************)
(* Claims about the FrameBuilder (under SpecCodec)                         *)
(***************************************************************************)

\* the number of bytes passed to add_data so far
Fed == IF cpc = "built" THEN 0 ELSE (pos - 2) \div 2

\* the k-th byte passed to add_data
FedByte(k) == decode_hex(wire[2 * k], wire[2 * k + 1])

\* the tag of the n-th byte of a frame whose first byte is length
TagOf(n, length) ==
    IF n = 1 THEN "Length"
    ELSE IF n = 2 THEN "Type"
    ELSE IF n = 3 THEN "Address Low"
    ELSE IF n = 4 THEN "Address High"
    ELSE IF n <= length + 4 THEN "Data"
    ELSE "Checksum"

\* C21: a FrameBuilder fed byte by byte from its initial state returns the tags
\* 'Length', 'Type', 'Address Low', 'Address High', 'Data' length times (length being
\* the first byte) and 'Checksum'; it returns a frame only with 'Checksum', on byte
\* number length + 5, and that frame has the length and type fed, address = high
\* byte * 256 + low byte, the length data bytes in the order fed and the checksum
\* fed.
C21_TagsAndFrame ==
    (Fed >= 1 /\ Fed <= FedByte(1) + 5) =>
        /\ ret.tag = TagOf(Fed, FedByte(1))
        /\ ~IsNone(ret.frame) <=> Fed = FedByte(1) + 5
        /\ ~IsNone(ret.frame) =>
              /\ Val(ret.frame).length = FedByte(1)
              /\ Val(ret.frame).frame_type = FedByte(2)
              /\ Val(ret.frame).address = FedByte(4) * 256 + FedByte(3)
              /\ Val(ret.frame).data = [j \in 1..FedByte(1) |-> FedByte(4 + j)]
              /\ Val(ret.frame).checksum = FedByte(Fed)

\* the frame of three data bytes and address 0x1234 came back on the eighth byte
C21_Witness ==
    /\ Fed = 8
    /\ FedByte(1) = 3
    /\ FedByte(3) = 52
    /\ FedByte(4) = 18
    /\ ret.tag = "Checksum"
    /\ ~IsNone(ret.frame)
    /\ Val(ret.frame).address = 4660
    /\ Val(ret.frame).data = <<0, 1, 2>>

\* a frame of no data byte came back on the fifth byte
C21_WitnessNoData == Fed = 5 /\ FedByte(1) = 0 /\ ret.tag = "Checksum" /\ ~IsNone(ret.frame)

\* C22: after a FrameBuilder has returned a frame with 'Checksum' it is as a new
\* FrameBuilder: the next byte passed to add_data is taken as the Length of a new
\* frame (tag 'Length', no frame returned), and the builder holds no header field
\* and no data byte of the frame returned before.
C22_ResetAfterFrame ==
    (cpc # "built" /\ Fed = FedByte(1) + 6) =>
        /\ ret.tag = "Length"
        /\ IsNone(ret.frame)
        /\ fb = [FrameBuilder_init EXCEPT !.length = Some(FedByte(Fed)),
                                          !.data_count = Some(FedByte(Fed))]

(***************************************************************************)
(* Text: Text.from_text_list is called on a list of strings and the text   *)
(* of each frame it returned is read                                       *)
(***************************************************************************)

\* a line of four words that textwrap.wrap breaks into four chunks: 376 characters
FourChunks ==
    Rep(97, 100) \o <<32>> \o Rep(98, 100) \o <<32>> \o Rep(99, 100) \o <<32>>
        \o Rep(100, 73)

\* texts of lines of 128 characters and more
WrappedTexts ==
    {Rep(97, 128), Rep(97, 128) \o <<10, 98>>, Rep(97, 256), Rep(97, 300), FourChunks}

\* the lists of one, two and three strings: short ones, long ones, lists of 376
\* characters in all, lists Text.from_text_list rejects (377 characters, a
\* character that has no code)
TextLists ==
    {<<t>> : t \in ShortTexts \cup LongTexts \cup WrappedTexts}
        \cup {<<t, u>> : t \in ShortTexts, u \in {<<>>, <<98>>}}
        \cup {<<t, u>> : t \in {<<>>, <<97>>, Rep(97, 188), Rep(97, 200)},
                         u \in {<<>>, <<98>>, Rep(98, 100), Rep(98, 188)}}
        \cup {<<t, u, v>> : t \in {<<>>, <<97>>, Rep(97, 125)}, u \in {<<>>, <<98>>},
                            v \in {<<>>, <<99>>, Rep(99, 249)}}
        \cup {<<Rep(97, 377)>>, <<Rep(97, 376), <<98>>>>, <<Rep(97, 376), <<>>>>,
              <<<<97, 960>>>>}

TextInit ==
    /\ texts \in TextLists
    /\ tframes = None
    /\ tdecoded = <<>>
    /\ tpc = "new"
    /\ CodecIdle
    /\ RecordIdle
    /\ SenderIdle
    /\ DecoderIdle

\* Text.from_text_list(texts)
FromTextList ==
    /\ tpc = "new"
    /\ tframes' = from_text_list(texts)
    /\ tpc' = IF tframes'.ok THEN "framed" ELSE "failed"
    /\ UNCHANGED <<texts, tdecoded>>
    /\ UNCHANGED nonTextVars

\* [f.text for f in frames]: every data byte of these frames was taken from
\* UNICODE_TO_CASIO, so it has an entry in CASIO_TO_UNICODE
ReadText ==
    /\ tpc = "framed"
    /\ tdecoded' = [i \in 1..Len(tframes.frames) |-> text(tframes.frames[i])]
    /\ tpc' = "read"
    /\ UNCHANGED <<texts, tframes>>
    /\ UNCHANGED nonTextVars

TextNext == FromTextList \/ ReadText

SpecText == TextInit /\ [][TextNext]_vars

(***************************************************************************)
(* Claims about Text.from_text_list (under SpecText)                       *)
(***************************************************************************)

\* every character of s is a key of UNICODE_TO_CASIO
AllEncodable(s) == \A i \in 1..Len(s) : Encodable(s[i])

\* C23: for every string s of at most 376 encodable characters, of one line or of
\* several, Text.from_text(s) returns frames, and their texts concatenated in order
\* are s: no character is dropped, added or moved.
C23_TextRoundTrip ==
    (Len(texts) = 1 /\ Len(texts[1]) <= MAX_LENGTH /\ AllEncodable(texts[1])) =>
        /\ tpc # "failed"
        /\ tpc = "read" => Concat(tdecoded) = texts[1]

\* C24: every Text frame Text.from_text_list returns carries at most 128 data bytes
\* (length <= 0x80), the field separator and newline bytes included.
C24_FrameAtMost128 ==
    tpc \in {"framed", "read"} =>
        \A i \in 1..Len(tframes.frames) :
            /\ tframes.frames[i].length <= MAX_CHUNK_SIZE
            /\ Len(tframes.frames[i].data) <= MAX_CHUNK_SIZE

\* the offset at which the k-th frame starts: the lengths of the frames before it
OffsetOf(frames, k) == Sum([i \in 1..(k - 1) |-> frames[i].length])

\* C25: in the list Text.from_text_list returns, the first frame starts at offset 0
\* and every later frame at the offset where the one before it ended, across fields
\* as within a field; a frame that starts below 0x100 has type 0x80 and the offset as
\* its address, a frame that starts at 0x100 or above has type 0x81 and the offset
\* modulo 0x100 as its address.
C25_ContiguousAddresses ==
    tpc \in {"framed", "read"} =>
        \A k \in 1..Len(tframes.frames) :
            /\ tframes.frames[k].length = Len(tframes.frames[k].data)
            /\ IF OffsetOf(tframes.frames, k) < 256
               THEN /\ tframes.frames[k].frame_type = 128
                    /\ tframes.frames[k].address = OffsetOf(tframes.frames, k)
               ELSE /\ tframes.frames[k].frame_type = 129
                    /\ tframes.frames[k].address = OffsetOf(tframes.frames, k) % 256

\* two fields of 188 characters: the frames start at 0, 128, 189 and 317, the third in
\* the second field, the fourth with type 0x81 and address 61
C25_Witness ==
    /\ tpc = "framed"
    /\ texts = <<Rep(97, 188), Rep(98, 188)>>
    /\ Len(tframes.frames) = 4
    /\ tframes.frames[3].address = 189
    /\ tframes.frames[3].data[1] = 98
    /\ tframes.frames[4].frame_type = 129
    /\ tframes.frames[4].address = 61

\* the length of the encoded text of a record: the strings and one unit separator
\* between each two of them
EncodedLength(text_list) ==
    Sum([i \in 1..Len(text_list) |-> Len(text_list[i])])
        + (IF text_list = <<>> THEN 0 ELSE Len(text_list) - 1)

\* C26: Text.from_text_list fails and returns no frame whenever the encoded text,
\* strings plus unit separators, is longer than 376 bytes; whenever it succeeds the
\* data bytes of the frames total at most 376.
C26_RecordTooLong ==
    /\ (tpc # "new" /\ EncodedLength(texts) > MAX_LENGTH) => tpc = "failed"
    /\ tpc \in {"framed", "read"} =>
          Sum([i \in 1..Len(tframes.frames) |-> Len(tframes.frames[i].data)]) <= MAX_LENGTH

(***************************************************************************)
(* Claims about the text block and the frame order of to_frames (under     *)
(* SpecRecord)                                                             *)
(***************************************************************************)

UnitTextKinds == {"Telephone", "BusinessCard", "Expense"}

\* the fields of r that are sent as one unit-separated text block, in order, an
\* absent one None; the date and the amount of an Expense are always present
StringFields(r) ==
    CASE r.kind = "Telephone" ->
           <<Some(r.name), r.number, r.address, r.free1, r.free2, r.free3, r.free4,
             r.free5, r.free6>>
      [] r.kind = "BusinessCard" ->
           <<Some(r.employer), Some(r.name), r.telephone_number, r.telex_number,
             r.fax_number, r.position, r.department, r.po_box, r.address, r.memo>>
      [] r.kind = "Expense" ->
           <<Some(r.date), Some(r.amount), r.payment_type, r.expense_type, r.rcpt,
             r.bus, r.description>>

\* the index of the last field that is present
LastPresent(fields) ==
    CHOOSE i \in 1..Len(fields) :
        ~IsNone(fields[i]) /\ \A j \in (i + 1)..Len(fields) : IsNone(fields[j])

\* the text of the Text frames, concatenated in order
SentText(frames) ==
    Concat([i \in 1..Len(frames) |->
               IF IsInstance(frames[i], "Text") THEN text(frames[i]) ELSE <<>>])

\* C27: to_frames of a Telephone, a BusinessCard and an Expense drops the trailing
\* absent fields and keeps each absent field before a present one as an empty
\* field, so the text sent has one field for each field up to the last present one
\* and never ends with a unit separator; from_frames reads an empty field between
\* present ones and a missing trailing field back as None.
C27_TrailingNoneDropped ==
    (rec.kind \in UnitTextKinds /\ rpc \in {"framed", "parsed"}) =>
        /\ Len(SplitOn(SentText(rframes.frames), 31)) = LastPresent(StringFields(rec))
        /\ \/ SentText(rframes.frames) = <<>>
           \/ SentText(rframes.frames)[Len(SentText(rframes.frames))] # 31
        /\ \A i \in 1..LastPresent(StringFields(rec)) :
              IsNone(StringFields(rec)[i]) => SplitOn(SentText(rframes.frames), 31)[i] = <<>>
        /\ (rpc = "parsed" /\ rout.ok) =>
              \A i \in 1..Len(StringFields(rec)) :
                  IsNone(StringFields(rec)[i]) => IsNone(StringFields(rout.rec)[i])

\* <<k>> when the field is set, <<>> when it is None
OptKind(field, k) == IF IsNone(field) THEN <<>> ELSE <<k>>

\* the kinds of the frames of r that come before its Text frames, in the order of
\* the claim
KindsBeforeText(r) ==
    CASE r.kind \in {"Telephone", "BusinessCard", "Memo", "Expense"} ->
           OptKind(r.color, "Color")
      [] r.kind = "Calendar" ->
           <<"Date", "DayHighlight">> \o OptKind(r.colors, "DayColorHighlight")
      [] r.kind = "Schedule" ->
           <<"Date">>
               \o (IF IsNone(r.start_time) THEN <<>>
                   ELSE IF IsNone(r.end_time) THEN <<"Time">> ELSE <<"StartEndTime">>)
               \o OptKind(r.alarm_time, "Alarm")
               \o OptKind(r.illustration, "Illustration")
               \o OptKind(r.color, "Color")
      [] r.kind = "Reminder" -> <<"Date">> \o OptKind(r.alarm_time, "Alarm")
      [] r.kind = "ToDo" ->
           OptKind(r.deadline_date, "DeadlineDate")
               \o OptKind(r.deadline_time, "DeadlineTime")
               \o OptKind(r.alarm, "ToDoAlarm")
               \o OptKind(r.checked_date, "Date")
               \o OptKind(r.checked_time, "Time")
               \o OptKind(r.priority, "Priority")

\* the kinds of the frames of r that come after its Text frames
KindsAfterText(r) == IF r.kind = "Reminder" THEN OptKind(r.color, "Color") ELSE <<>>

\* r has a text to send: a Calendar has none, the description of a Schedule is
\* optional
HasText(r) ==
    /\ r.kind # "Calendar"
    /\ r.kind = "Schedule" => ~IsNone(r.description)

\* the number of Text frames among frames when the others are as the claim says
TextCount(r, frames) == Len(frames) - Len(KindsBeforeText(r)) - Len(KindsAfterText(r))

\* C28: to_frames emits the frames of a record in the order fixed for its kind, each
\* optional frame present exactly when its field is set.  Telephone, BusinessCard,
\* Memo, Expense: Color, the Text frames; Calendar: Date with day 1, DayHighlight,
\* DayColorHighlight; Schedule: Date, Time when only start_time is set or StartEndTime
\* when start_time and end_time are set, Alarm, Illustration, Color, Text; Reminder:
\* Date without year, Alarm, Text, Color; ToDo: DeadlineDate, DeadlineTime, ToDoAlarm,
\* Date, Time, Priority, Text.  Text frames are there only when the record has a text.
C28_FrameOrder ==
    rpc \in {"framed", "parsed"} =>
        /\ TextCount(rec, rframes.frames) >= 0
        /\ TextCount(rec, rframes.frames) > 0 => HasText(rec)
        /\ [i \in 1..Len(rframes.frames) |-> rframes.frames[i].kind]
             = KindsBeforeText(rec) \o Rep("Text", TextCount(rec, rframes.frames))
                 \o KindsAfterText(rec)
        /\ rec.kind = "Calendar" => SubSeq(text(rframes.frames[1]), 8, 10) = <<45, 48, 49>>
        /\ rec.kind = "Reminder" => SubSeq(text(rframes.frames[1]), 1, 5) = <<45, 45, 45, 45, 45>>

\* a Schedule with every field set: Date, StartEndTime, Alarm, Illustration, Color, Text
C28_Witness ==
    /\ rpc = "framed"
    /\ rec.kind = "Schedule"
    /\ [i \in 1..Len(rframes.frames) |-> rframes.frames[i].kind]
         = <<"Date", "StartEndTime", "Alarm", "Illustration", "Color", "Text">>

(***************************************************************************)
(* Claims about the day highlights of a Calendar (under SpecRecord, whose  *)
(* ToFrames calls DayHighlight.from_days(days) for the second frame and    *)
(* DayColorHighlight.from_days_and_colors(days, colors) for the third)     *)
(***************************************************************************)

\* the DayHighlight frame of the Calendar: DayHighlight.from_days(rec.days)
DayHighlightFrame == rframes.frames[2]

\* C29: for every set S of days within 1..31, DayHighlight.from_days(S).days = S, and
\* the frame has four data bytes in which day d is bit ((d - 1) mod 8) of byte
\* 3 - ((d - 1) div 8) and every other bit is 0; the days {1, 10, 19, 28} give the
\* data [8, 4, 2, 1].
C29_DayHighlightBits ==
    (rec.kind = "Calendar" /\ rpc \in {"framed", "parsed"}) =>
        /\ DayHighlight_days(DayHighlightFrame) = rec.days
        /\ Len(DayHighlightFrame.data) = 4
        /\ \A byte \in 0..3 :
              /\ DayHighlightFrame.data[byte + 1] \in 0..255
              /\ \A bit \in 0..7 :
                    BitTest(DayHighlightFrame.data[byte + 1], bit)
                        <=> \E d \in rec.days :
                                byte = 3 - ((d - 1) \div 8) /\ bit = (d - 1) % 8
        /\ rec.days = {1, 10, 19, 28} <=> DayHighlightFrame.data = <<8, 4, 2, 1>>

C29_Witness ==
    /\ rec.kind = "Calendar"
    /\ rpc = "framed"
    /\ rec.days = {1, 10, 19, 28}
    /\ DayHighlightFrame.kind = "DayHighlight"
    /\ DayHighlightFrame.data = <<8, 4, 2, 1>>

\* the DayColorHighlight frame of a Calendar whose colors are set:
\* DayColorHighlight.from_days_and_colors(rec.days, rec.colors)
DayColorHighlightFrame == rframes.frames[3]

\* C30: for every set S of days within 1..31 and every list C of 31 colours, the frame
\* F = DayColorHighlight.from_days_and_colors(S, C) has 32 data bytes, F.days = S and
\* F.colors = C; the bytes are stored in reversed order, the byte of day d has bit 0x80
\* set exactly when d is in S and carries the colour code of C[d - 1] (C counted from
\* 0), and the byte of the day 32 there is not is 0.
C30_DayColorHighlight ==
    (rec.kind = "Calendar" /\ ~IsNone(rec.colors) /\ rpc \in {"framed", "parsed"}) =>
        /\ DayColorHighlightFrame.length = 32
        /\ Len(DayColorHighlightFrame.data) = 32
        /\ get_day_color_highlight(DayColorHighlightFrame).ok
        /\ DayColorHighlight_days(get_day_color_highlight(DayColorHighlightFrame).value)
             = rec.days
        /\ DayColorHighlight_colors(get_day_color_highlight(DayColorHighlightFrame).value)
             = Val(rec.colors)
        /\ \A d \in 1..31 :
              DayColorHighlightFrame.data[33 - d]
                  = (IF d \in rec.days THEN 128 ELSE 0) + ColorValue(Val(rec.colors)[d])
        /\ DayColorHighlightFrame.data[1] = 0

\* days {1, 10, 19, 28} and colours that are not all the same: the byte of day 1, the
\* last one, is 0x80 + ORANGE and the byte of day 2 is GREEN
C30_Witness ==
    /\ rec.kind = "Calendar"
    /\ rpc = "framed"
    /\ rec.days = {1, 10, 19, 28}
    /\ rec.colors = Some([i \in 1..31 |-> ColorList[(i % 3) + 1]])
    /\ DayColorHighlightFrame.kind = "DayColorHighlight"
    /\ DayColorHighlightFrame.data[32] = 130
    /\ DayColorHighlightFrame.data[31] = 4

(***************************************************************************)
(* Claims about the serial port of a session (under SpecSender)            *)
(***************************************************************************)

\* send_directory_data has ended: it returned or an exception left it
SessionEnded == spc \in {"done", "error"}

\* C31: when send_directory_data has ended, by its return or by an exception raised
\* in the handshake, in a write, by to_frames or by _wait_for_ack, the serial port
\* that was opened for the session is closed
C31_ClosedWhenEnded == SessionEnded => ~is_open

\* a session that was ended by the NACK that _wait_for_ack read
C31_Witness ==
    /\ spc = "error"
    /\ err = Raise("RuntimeError", "NACK received", None)
    /\ ~is_open

\* the other ways a session ends: the return, and an exception of wait_for_xon, of
\* write and of to_frames
C31_WitnessReturn == spc = "done" /\ ~is_open /\ IsNone(err)

C31_WitnessHandshake ==
    spc = "error" /\ ~is_open /\ Len(tx) = 2 /\ err # None /\ err[1].type = "ValueError"

C31_WitnessWrite ==
    spc = "error" /\ ~is_open /\ err = Raise("RuntimeError", "Short write!", None)

C31_WitnessToFrames ==
    spc = "error" /\ ~is_open /\ recs # <<>> /\ Head(recs) = BadMemo

(***************************************************************************)
(* Claims about the bytes that write sets aside (under SpecSender)         *)
(***************************************************************************)

\* C37: the bytes other than XON and XOFF that write read from the receiver, and the
\* bytes that read() took from the serial port itself, are what read() has returned
\* so far followed by what _read_buff holds, each once and in the order of arrival:
\* none is lost or duplicated, and read() returns the bytes set aside before any byte
\* still on the channel
C37_ReadInArrivalOrder == got \o read_buff = arrived

\* _wait_for_ack of the Directory frame has just returned: read() gave it the first of
\* two bytes that write had set aside, the second is in _read_buff and a later byte
\* of the receiver is unread on the channel
C37_Witness ==
    /\ spc = "records"
    /\ Len(got) = 1
    /\ Len(arrived) = 2
    /\ read_buff = <<arrived[2]>>
    /\ rx # <<>>

(***************************************************************************)
(* Claims about the handshake and the flow control of write                *)
(* (under SpecSender)                                                      *)
(***************************************************************************)

\* the handshake is running, _sync has not returned: no frame was begun and the
\* sender is not at the loop over data.items()
InHandshake == cur = "" /\ spc \in {"sync_cr", "sync_lf", "wait_xon", "w_check", "w_read", "w_write"}

\* C38: an XON that arrives after a CR LF round was written and its wait_for_xon has
\* timed out, and that is taken off the serial port while the handshake is running,
\* completes the handshake: it is taken by wait_for_xon, not by write
C38_XonSeenByHandshake ==
    [][(InHandshake /\ \E i \in 1..Len(waits) : waits[i] = None)
           /\ rx # <<>> /\ Head(rx) = XON /\ rx' = Tail(rx)
       => spc' = "items"]_vars

(***************************************************************************)
(* Termination: send_directory_data with a receiver that keeps to the      *)
(* protocol. The receiver answers every CR LF round with XON, sends ACK    *)
(* after every Directory and EndOfRecord frame, may ask the sender to      *)
(* pause with XOFF and then sends XON. The sender always takes its next    *)
(* step and the receiver always sends what it owes (weak fairness); the    *)
(* serial port accepts every byte.                                         *)
(***************************************************************************)

\* the number of XOFF bytes the receiver sends in a session
MaxXoff == 1

\* the inputs all of whose records are encodable
TerminationInputs ==
    {d \in SenderInputs :
        \A i \in 1..Len(d) : \A j \in 1..Len(d[i].records) : to_frames(d[i].records[j]).ok}

TerminationInit == SenderInit /\ data \in TerminationInputs

\* the rounds of the handshake whose LF was written
RoundsWritten == Cardinality({i \in 1..Len(tx) : tx[i] = LF})

\* the receiver sends b and is then in state r
ReceiverSends(b, r) ==
    /\ spc \notin {"done", "error"}
    /\ rx' = Append(rx, b)
    /\ nsent' = nsent + 1
    /\ rcv' = r
    /\ UNCHANGED <<data, spc, pairs, recs, rfs, cur, wbuf, widx, wret, xoff, read_buff,
                   tx, err, rounds, waits, log, taken, lastFlow, checked, is_open,
                   arrived, got>>
    /\ UNCHANGED nonSenderVars

\* the receiver answers a CR LF round with XON
AnswerRound ==
    /\ ~rcv.paused
    /\ rcv.xon < RoundsWritten
    /\ ReceiverSends(XON, [rcv EXCEPT !.xon = @ + 1])

\* the receiver acknowledges a Directory or EndOfRecord frame
AckFrame ==
    /\ ~rcv.paused
    /\ rcv.ack < AckedFrameCount
    /\ ReceiverSends(ACK, [rcv EXCEPT !.ack = @ + 1])

\* the receiver asks the sender to pause
Pause ==
    /\ ~rcv.paused
    /\ rcv.xoff < MaxXoff
    /\ ReceiverSends(XOFF, [rcv EXCEPT !.xoff = @ + 1, !.paused = TRUE])

\* the receiver follows its XOFF with XON
Resume ==
    /\ rcv.paused
    /\ ReceiverSends(XON, [rcv EXCEPT !.paused = FALSE])

\* the steps of send_directory_data when the serial port accepts every byte
SenderStep ==
    \/ SyncCR
    \/ SyncLF
    \/ WaitForXonByte
    \/ WaitForXonTimeout
    \/ WriteCheck
    \/ WriteRead
    \/ WriteByte
    \/ SendDirectory
    \/ SendEndOfTransmission
    \/ WaitForAck
    \/ SendRecord
    \/ NextItem
    \/ SendRecordFrame
    \/ SendEndOfRecord

TerminationNext == SenderStep \/ AnswerRound \/ AckFrame \/ Pause \/ Resume

SpecTermination ==
    /\ TerminationInit
    /\ [][TerminationNext]_vars
    /\ WF_vars(SenderStep)
    /\ WF_vars(AnswerRound)
    /\ WF_vars(AckFrame)
    /\ WF_vars(Resume)

(***************************************************************************)
(* Claims about termination (under SpecTermination)                        *)
(***************************************************************************)

\* C39: with a receiver that answers every CR LF round with XON, acknowledges every
\* Directory and EndOfRecord frame and follows every XOFF with an XON,
\* send_directory_data on encodable records eventually writes the EndOfTransmission
\* frame and returns
C39_Terminates == <>(spc = "done")

(***************************************************************************)
(* Claims about the text that from_frames reads (under SpecRecord)         *)
(***************************************************************************)

\* the record kinds that carry text
TextKinds == {"Telephone", "BusinessCard", "Memo", "Schedule", "Reminder", "ToDo", "Expense"}

\* the text that the record r was made from, for the kinds with one text
TextRead(r) ==
    CASE r.kind = "Memo" -> r.text
      [] r.kind = "Schedule" -> IF IsNone(r.description) THEN <<>> ELSE Val(r.description)
      [] r.kind \in {"Reminder", "ToDo"} -> r.description

\* the string fields of r from the k-th on are the fields of txt from the k-th on
FieldsRead(r, txt, k) ==
    \A i \in k..Len(StringFields(r)) : StringFields(r)[i] = FieldAt(Fields(txt), i - 1)

\* C33: the record that from_frames returns is made from the text of all the Text
\* frames, concatenated in frame order: the text of a Memo, the description of a
\* Schedule, a Reminder and a ToDo, and the unit-separated fields of a Telephone, a
\* BusinessCard and an Expense (after its date and amount)
C33_TextAccumulated ==
    (rpc = "parsed" /\ rec.kind \in TextKinds /\ rout.ok) =>
        IF rec.kind \in UnitTextKinds
        THEN FieldsRead(rout.rec, SentText(rframes.frames),
                        IF rec.kind = "Expense" THEN 3 ELSE 1)
        ELSE TextRead(rout.rec) = SentText(rframes.frames)

(***************************************************************************)
(* Claims about the record groups of the decoder (under SpecDecoder)       *)
(***************************************************************************)

\* the decode() call that has just run completed a Directory frame
DirectoryCompleted(self) ==
    \E i \in 1..Len(self.out) :
        self.out[i].name = "frame-type-" /\ self.out[i].of \in DirectoryClasses

\* a is the annotation of a record decoded with the record type of the directory kind
\* directory, an unknown-record warning when the kind has no record type
DecodedAs(a, directory) ==
    IF directory \in RecordDirectories
    THEN a.name = "sender-record-" /\ a.of = DIRECTORY_TO_RECORD(directory)
    ELSE a.text.label = "Unknown Record: "

\* C34: the remembered directory kind changes only in a decode() call that completes
\* a Directory frame; and a decode() call that completes an EndOfRecord frame, in a
\* decoder that was not reset, decodes the record with the record type of the last
\* Directory frame completed before it, for the first record after that Directory
\* frame and for every later one
C34_DirectoryOpensGroup ==
    [][/\ dec'.record_directory_type # dec.record_directory_type
              => (nreset' = nreset /\ DirectoryCompleted(dec'))
       /\ (nreset' = 0 /\ EndOfRecordCompleted(dec')
               /\ RememberedDirectory(FrameAnns(dec')) # None)
              => /\ dec'.record_directory_type = RememberedDirectory(FrameAnns(dec'))
                 /\ dec'.exc = None
                        => DecodedAs(dec'.out[Len(dec'.out)],
                                     Val(RememberedDirectory(FrameAnns(dec'))))]_vars

(***************************************************************************)
(* Claims about the decoder given the sessions of a Sender (under          *)
(* SpecSession)                                                            *)
(***************************************************************************)

\* the records of the items d, in the order they are sent
RecordsSent(d) == Concat([i \in 1..Len(d) |-> d[i].records])

\* the records of the sessions of the capture, in the order they are sent
CaptureRecords ==
    LET ds == CHOOSE x \in SessionLists : SessionsBytes(x) = capture
    IN  Concat([i \in 1..Len(ds) |-> RecordsSent(ds[i])])

\* the record annotations and the unknown-record warnings put so far
RecordAnns(self) == SelectSeq(self.anns, IsRecordAnn)

\* C32: a decoder that is given the bytes a Sender writes in error-free sessions does
\* not fail and puts no warning; when it has been given all of them it has put one
\* record annotation for each record sent, in the order sent, each of the kind of the
\* record sent and describing the record sent
C32_SenderDecoderAgree ==
    /\ dec.exc = None
    /\ \A i \in 1..Len(dec.anns) : dec.anns[i].name # "sender-warning"
    /\ script = <<>> =>
           /\ Len(RecordAnns(dec)) = Len(CaptureRecords)
           /\ \A i \in 1..Len(CaptureRecords) :
                  /\ RecordAnns(dec)[i].name = "sender-record-"
                  /\ RecordAnns(dec)[i].of = CaptureRecords[i].kind
                  /\ RecordAnns(dec)[i].text.record = Some(CaptureRecords[i])

\* the decode() call that has just run completed an EndOfTransmission frame
EndOfTransmissionCompleted(self) ==
    \E i \in 1..Len(self.out) :
        self.out[i].name = "frame-type-" /\ self.out[i].of = "EndOfTransmission"

\* C35: the frames of the record being aggregated never include a Directory frame or
\* an EndOfTransmission frame; a decode() call that completes an EndOfTransmission
\* frame leaves the aggregator waiting for a Directory frame or a frame, with no
\* frame in its buffer
C35_BufferHoldsRecordFrames ==
    /\ \A i \in 1..Len(dec.record_frames) :
           /\ ~IsInstance(dec.record_frames[i], "Directory")
           /\ dec.record_frames[i].kind # "EndOfTransmission"
    /\ EndOfTransmissionCompleted(dec) =>
           /\ dec.record_state = "directory_or_record"
           /\ dec.record_frames = <<>>

(***************************************************************************)
(* C36: the digits of a frame                                              *)
(***************************************************************************)

\* the "frame-header" annotations that the decode() call that has just run put
OutPieces(self) == SelectSeq(self.out, LAMBDA a : a.name = "frame-header")

\* what a sender byte does while the sub-machine is in a frame, n being the number
\* of sender bytes since the ':' that opened it, the byte included
FrameDigit ==
    (DataStep(SenderLine) /\ dec.sender_decode_function = "_decode_sender_frame")
        => LET n == (dn - Val(dec.frame_startsample)) \div 2
           IN /\ dec'.exc = None
              /\ script' = Tail(script)
              /\ IF n % 2 = 1
                 THEN /\ dec'.out = <<>>
                      /\ dec'.sender_decode_function = "_decode_sender_frame"
                 ELSE /\ Len(OutPieces(dec')) = 1
                      /\ OutPieces(dec')[1].startsample = dn - 2
                      /\ OutPieces(dec')[1].endsample = dn + 1
                      /\ (/\ dec.hex_high_value # None
                          /\ IsHexDigit(Val(dec.hex_high_value))
                          /\ IsHexDigit(uart'.datavalue))
                             => OutPieces(dec')[1].text.value
                                    = 16 * HexValue(Val(dec.hex_high_value))
                                          + HexValue(uart'.datavalue)
                      /\ IF Len(OutFrames(dec')) = 1
                         THEN /\ n = 2 * (FrameOf(OutFrames(dec')[1]).length + 5)
                              /\ OutFrames(dec')[1].startsample
                                     = Val(dec.frame_startsample)
                              /\ OutFrames(dec')[1].endsample = dn + 1
                              /\ dec'.sender_decode_function
                                     = "_decode_sender_sync_or_frame"
                         ELSE /\ OutFrames(dec') = <<>>
                              /\ dec'.sender_decode_function = "_decode_sender_frame"
                              /\ dec'.frame_builder.length # None
                              /\ n < 2 * (Val(dec'.frame_builder.length) + 5)

\* C36: after a ':' each two consecutive sender bytes give one binary byte, the
\* first digit its high nibble and the second its low nibble, and one piece
\* annotation from the start sample of the first to the end sample of the second;
\* the byte that makes 2 * (length + 5) digits, and no earlier one, completes the
\* frame, whose annotation runs from the ':' to that byte, and sends the sub-machine
\* back to await the first sync byte or a frame start; no byte inside a frame makes
\* the call fail or restarts the framing.
C36_FrameDigits == [][FrameDigit]_vars

=============================================================================
